---- MODULE Spec2Model ----
(***************************************************************************)
(* ECH price simulator: scenario engine (backend/scenario_engine.py), the  *)
(* scenario catalog (backend/models.py) and the HTTP routes that drive the *)
(* engine (backend/app.py).                                                *)
(*                                                                         *)
(* Numbers.  The program computes in IEEE doubles; the model computes in   *)
(* fixed point with integers:                                              *)
(*   - a scenario parameter that is a fraction (0.15) is held in thousandths*)
(*     (150); month counts are plain integers;                             *)
(*   - a fractional price effect is held in millionths (0.35 = 350000);    *)
(*   - a reported price effect, round(v * 100, 2), is held in hundredths   *)
(*     of a percent (35.0 % = 3500);                                       *)
(*   - a price (USD/lb) is held in ten-thousandths (0.65 = 6500), the      *)
(*     resolution round(x, 4) keeps.                                       *)
(* Every product is rounded to the nearest unit, as a double rounds to the *)
(* nearest representable value.                                            *)
(***************************************************************************)
EXTENDS Integers, Sequences, FiniteSets, TLC

(***************************************************************************)
(* Arithmetic helpers                                                      *)
(***************************************************************************)
Abs(x) == IF x < 0 THEN -x ELSE x

Min(a, b) == IF a <= b THEN a ELSE b

Max(a, b) == IF a >= b THEN a ELSE b

\* a / b rounded to the nearest integer, ties away from zero (b > 0).
RoundDiv(a, b) ==
    IF a >= 0 THEN (a + (b \div 2)) \div b
    ELSE -(((-a) + (b \div 2)) \div b)

\* a / b rounded to the nearest integer, ties to even: Python's round().
RoundHalfEven(a, b) ==
    LET m == Abs(a)
        q == m \div b
        r == m % b
        n == IF 2 * r < b THEN q
             ELSE IF 2 * r > b THEN q + 1
             ELSE IF q % 2 = 0 THEN q ELSE q + 1
    IN IF a >= 0 THEN n ELSE -n

\* The list [F(k), F(k + 1), ..., F(n)], every element computed once
Tabulate(n, k, F(_)) == [i \in 1..(n - k + 1) |-> F(k + i - 1)] \o <<>>

\* F applied to the value v, computed once: "x = v" followed by code using x
With(v, F(_)) == F(v)

\* dict.get(key, default)
Get(d, k, default) == IF k \in DOMAIN d THEN d[k] ELSE default

\* A parameter value is a number, [num |-> n], or a string, [str |-> s].
IsNum(v) == "num" \in DOMAIN v

\* params.get(key, default) where the code goes on to compute with a number
NumParam(params, k, default) == Get(params, k, [num |-> default]).num

\* params.get(key, default) where the code goes on to compare with strings;
\* a number equals none of them
StrParam(params, k, default) ==
    LET v == Get(params, k, [str |-> default])
    IN IF IsNum(v) THEN "" ELSE v.str

(***************************************************************************)
(* models.py: the scenario catalog                                         *)
(***************************************************************************)
\* The value get_scenario returns for an id that is not in the catalog.
None == [none |-> TRUE]

SCENARIOS ==
    [id \in 1..16 |->
      CASE id = 1 -> [id |-> 1, logic |-> "demand_growth", affected_regions |-> {"all"},
              parameters |-> [demand_growth_rate |-> [num |-> 33], duration_months |-> [num |-> 24],
                              price_elasticity |-> [num |-> 600]]]
        [] id = 2 -> [id |-> 2, logic |-> "apac_growth", affected_regions |-> {"asia", "china"},
              parameters |-> [apac_growth_premium |-> [num |-> 20], global_spillover |-> [num |-> 300],
                              duration_months |-> [num |-> 18]]]
        [] id = 3 -> [id |-> 3, logic |-> "bio_adoption", affected_regions |-> {"asia", "eu"},
              parameters |-> [bio_adoption_rate |-> [num |-> 40], glycerine_cost_factor |-> [num |-> 1000],
                              duration_months |-> [num |-> 36]]]
        [] id = 4 -> [id |-> 4, logic |-> "epoxy_demand", affected_regions |-> {"all"},
              parameters |-> [epoxy_demand_growth |-> [num |-> 50], infrastructure_boost |-> [num |-> 0],
                              duration_months |-> [num |-> 12]]]
        [] id = 5 -> [id |-> 5, logic |-> "feedstock_shift", affected_regions |-> {"asia", "eu"},
              parameters |-> [glycerine_share_change |-> [num |-> 100], propylene_price_change |-> [num |-> 0],
                              glycerine_price_change |-> [num |-> 0], duration_months |-> [num |-> 24]]]
        [] id = 6 -> [id |-> 6, logic |-> "eu_regulatory", affected_regions |-> {"eu"},
              parameters |-> [supply_reduction |-> [num |-> 150], compliance_cost |-> [num |-> 100],
                              duration_months |-> [num |-> 36]]]
        [] id = 7 -> [id |-> 7, logic |-> "asian_advantage", affected_regions |-> {"asia", "china"},
              parameters |-> [glycerine_cost_advantage |-> [num |-> 150], competitive_intensity |-> [num |-> 500],
                              duration_months |-> [num |-> 18]]]
        [] id = 8 -> [id |-> 8, logic |-> "plant_shutdown", affected_regions |-> {"eu", "us"},
              parameters |-> [capacity_offline |-> [num |-> 100], region_affected |-> [str |-> "eu"],
                              duration_months |-> [num |-> 6]]]
        [] id = 9 -> [id |-> 9, logic |-> "supply_disruption", affected_regions |-> {"all"},
              parameters |-> [disruption_severity |-> [num |-> 200], recovery_months |-> [num |-> 4],
                              duration_months |-> [num |-> 8]]]
        [] id = 10 -> [id |-> 10, logic |-> "capacity_expansion", affected_regions |-> {"asia", "china"},
              parameters |-> [capacity_addition |-> [num |-> 150], ramp_up_months |-> [num |-> 6],
                              duration_months |-> [num |-> 24]]]
        [] id = 11 -> [id |-> 11, logic |-> "americas_stability", affected_regions |-> {"us"},
              parameters |-> [isolation_factor |-> [num |-> 700], competitive_pressure |-> [num |-> 0],
                              duration_months |-> [num |-> 24]]]
        [] id = 12 -> [id |-> 12, logic |-> "europe_elevation", affected_regions |-> {"eu"},
              parameters |-> [capacity_reduction |-> [num |-> 120], import_dependency |-> [num |-> 200],
                              duration_months |-> [num |-> 18]]]
        [] id = 13 -> [id |-> 13, logic |-> "apac_pressure", affected_regions |-> {"asia", "china"},
              parameters |-> [feedstock_pressure |-> [num |-> 80], shutdown_impact |-> [num |-> 50],
                              duration_months |-> [num |-> 12]]]
        [] id = 14 -> [id |-> 14, logic |-> "asian_undercut", affected_regions |-> {"asia", "china"},
              parameters |-> [price_discount |-> [num |-> 100], market_share_target |-> [num |-> 50],
                              duration_months |-> [num |-> 18]]]
        [] id = 15 -> [id |-> 15, logic |-> "eu_constraints", affected_regions |-> {"eu"},
              parameters |-> [supply_constraint |-> [num |-> 150], pricing_power |-> [num |-> 800],
                              duration_months |-> [num |-> 24]]]
        [] id = 16 -> [id |-> 16, logic |-> "us_stable", affected_regions |-> {"us"},
              parameters |-> [output_stability |-> [num |-> 950], price_volatility_reduction |-> [num |-> 300],
                              duration_months |-> [num |-> 36]]]]

get_scenario(scenario_id) ==
    IF scenario_id \in DOMAIN SCENARIOS THEN SCENARIOS[scenario_id] ELSE None

(***************************************************************************)
(* scenario_engine.py: the engine's region list                            *)
(***************************************************************************)
regions == <<"us_ech", "eu_ech", "asia_ech", "china_ech">>

RegionSet == {regions[i] : i \in DOMAIN regions}

\* The canonical region a catalog tag ("eu") names.
RegionOfTag(tag) == CASE tag = "us" -> "us_ech" [] tag = "eu" -> "eu_ech"
                      [] tag = "asia" -> "asia_ech" [] tag = "china" -> "china_ech"

\* The regions a catalog entry lists in affected_regions ("all" = every one).
AffectedRegions(scenario) ==
    IF "all" \in scenario.affected_regions THEN RegionSet
    ELSE {RegionOfTag(t) : t \in scenario.affected_regions}

(***************************************************************************)
(* scenario_engine.py: the sixteen effect formulas.  Each returns          *)
(* [ok |-> TRUE, effects |-> region -> millionths] or the exception the    *)
(* Python expression raises.                                               *)
(***************************************************************************)
Effects(us, eu, asia, china) ==
    [ok |-> TRUE,
     effects |-> [us_ech |-> us, eu_ech |-> eu, asia_ech |-> asia, china_ech |-> china]]

Raise(exc) == [ok |-> FALSE, error |-> exc]

_logic_demand_growth(params) ==
    LET growth == NumParam(params, "demand_growth_rate", 33)
        elasticity == NumParam(params, "price_elasticity", 600)
        duration == NumParam(params, "duration_months", 24)
        price_effect == RoundDiv(growth * elasticity * duration, 12)
    IN Effects(RoundDiv(price_effect * 9, 10), price_effect,
               RoundDiv(price_effect * 11, 10), RoundDiv(price_effect * 115, 100))

_logic_apac_growth(params) ==
    LET premium == NumParam(params, "apac_growth_premium", 20)
        spillover == NumParam(params, "global_spillover", 300)
        duration == NumParam(params, "duration_months", 18)
        apac_effect == RoundDiv(premium * 1000 * duration * 6, 120)
        global_effect == RoundDiv(RoundDiv(apac_effect * spillover, 1000) * 59, 100)
    IN Effects(global_effect, RoundDiv(global_effect * 11, 10),
               apac_effect, RoundDiv(apac_effect * 11, 10))

_logic_bio_adoption(params) ==
    LET adoption == NumParam(params, "bio_adoption_rate", 40)
        glycerine_cost == NumParam(params, "glycerine_cost_factor", 1000)
        duration == NumParam(params, "duration_months", 36)
        bio_effect == RoundDiv(adoption * 1000 * duration, 12)
    IN Effects(RoundDiv(bio_effect * 2, 100),
               RoundDiv(RoundDiv(bio_effect * glycerine_cost, 1000) * 8, 100),
               -RoundDiv(bio_effect * 5, 100), -RoundDiv(bio_effect * 6, 100))

_logic_epoxy_demand(params) ==
    LET epoxy_growth == NumParam(params, "epoxy_demand_growth", 50)
        infra_boost == NumParam(params, "infrastructure_boost", 0)
        duration == NumParam(params, "duration_months", 12)
        total_demand == (epoxy_growth + infra_boost) * 860
        price_effect == RoundDiv(total_demand * duration * 7, 120)
    IN Effects(RoundDiv(price_effect * 9, 10), price_effect,
               RoundDiv(price_effect * 11, 10), RoundDiv(price_effect * 115, 100))

_logic_feedstock_shift(params) ==
    LET glycerine_shift == NumParam(params, "glycerine_share_change", 100)
        propylene_change == NumParam(params, "propylene_price_change", 0)
        glycerine_change == NumParam(params, "glycerine_price_change", 0)
    IN Effects(propylene_change * 400 + glycerine_shift * 20,
               propylene_change * 350 + glycerine_change * 150 + glycerine_shift * 50,
               glycerine_change * 400 - glycerine_shift * 40,
               glycerine_change * 450 - glycerine_shift * 50)

\* min(duration_years, 2) dropped: the effect keeps growing with duration.
_logic_eu_regulatory_unclamped(params) ==
    LET supply_cut == NumParam(params, "supply_reduction", 150)
        compliance == NumParam(params, "compliance_cost", 100)
        duration == NumParam(params, "duration_months", 36)
        eu_effect == RoundDiv((supply_cut * 500 + compliance * 1000) * duration, 12)
    IN Effects(supply_cut * 20, eu_effect, -supply_cut * 20, -supply_cut * 30)

_logic_eu_regulatory(params) ==
    LET supply_cut == NumParam(params, "supply_reduction", 150)
        compliance == NumParam(params, "compliance_cost", 100)
        duration == NumParam(params, "duration_months", 36)
        eu_effect == RoundDiv((supply_cut * 500 + compliance * 1000) * Min(duration, 24), 12)
    IN Effects(supply_cut * 20, eu_effect, -supply_cut * 20, -supply_cut * 30)

_logic_asian_advantage(params) ==
    LET cost_advantage == NumParam(params, "glycerine_cost_advantage", 150)
        intensity == NumParam(params, "competitive_intensity", 500)
        duration == NumParam(params, "duration_months", 18)
        asia_effect == -RoundDiv(cost_advantage * intensity * Min(duration, 18), 12)
    IN Effects(-RoundDiv(cost_advantage * intensity * 3, 10),
               -RoundDiv(cost_advantage * intensity * 2, 10),
               asia_effect, RoundDiv(asia_effect * 11, 10))

\* _logic_plant_shutdown with duration_factor = duration_months / 6, not
\* capped at 1.5.
_logic_plant_shutdown_uncapped(params) ==
    LET offline == NumParam(params, "capacity_offline", 100)
        region == StrParam(params, "region_affected", "eu")
        duration_months == NumParam(params, "duration_months", 6)
        direct_effect == offline * 1700
        scaled == RoundDiv(direct_effect * duration_months, 6)
    IN IF region = "eu"
       THEN Effects(RoundDiv(direct_effect * 2, 10), scaled,
                    RoundDiv(direct_effect * 15, 100), RoundDiv(direct_effect, 10))
       ELSE IF region = "us"
       THEN Effects(scaled, RoundDiv(direct_effect * 15, 100), 0, 0)
       ELSE IF region \in {"asia", "china"}
       THEN Effects(RoundDiv(direct_effect * 5, 100), RoundDiv(direct_effect, 10),
                    RoundDiv(scaled * 9, 10), scaled)
       ELSE Effects(0, 0, 0, 0)

_logic_plant_shutdown(params) ==
    LET offline == NumParam(params, "capacity_offline", 100)
        region == StrParam(params, "region_affected", "eu")
        duration_months == NumParam(params, "duration_months", 6)
        direct_effect == offline * 1700
        \* direct_effect * min(duration_months / 6, 1.5)
        scaled == RoundDiv(direct_effect * Min(duration_months, 9), 6)
    IN IF region = "eu"
       THEN Effects(RoundDiv(direct_effect * 2, 10), scaled,
                    RoundDiv(direct_effect * 15, 100), RoundDiv(direct_effect, 10))
       ELSE IF region = "us"
       THEN Effects(scaled, RoundDiv(direct_effect * 15, 100), 0, 0)
       ELSE IF region \in {"asia", "china"}
       THEN Effects(RoundDiv(direct_effect * 5, 100), RoundDiv(direct_effect, 10),
                    RoundDiv(scaled * 9, 10), scaled)
       ELSE Effects(0, 0, 0, 0)

_logic_supply_disruption(params) ==
    LET severity == NumParam(params, "disruption_severity", 200)
        recovery == NumParam(params, "recovery_months", 4)
        duration == NumParam(params, "duration_months", 8)
        peak_effect == severity * 1500
        avg_effect == RoundDiv(peak_effect * (duration * 2 - recovery), duration * 2)
    IN IF duration * 2 = 0 THEN Raise("ZeroDivisionError")
       ELSE Effects(RoundDiv(avg_effect * 8, 10), avg_effect,
                    RoundDiv(avg_effect * 9, 10), RoundDiv(avg_effect * 85, 100))

_logic_capacity_expansion(params) ==
    LET addition == NumParam(params, "capacity_addition", 150)
        ramp_up == NumParam(params, "ramp_up_months", 6)
        duration == NumParam(params, "duration_months", 24)
        effective_addition == RoundDiv(addition * 1000 * (duration * 2 - ramp_up), duration * 2)
        price_effect == -RoundDiv(effective_addition * 8, 10)
    IN IF duration * 2 = 0 THEN Raise("ZeroDivisionError")
       ELSE Effects(RoundDiv(price_effect * 4, 10), RoundDiv(price_effect * 5, 10),
                    price_effect, RoundDiv(price_effect * 11, 10))

_logic_americas_stability(params) ==
    LET isolation == NumParam(params, "isolation_factor", 700)
        pressure == NumParam(params, "competitive_pressure", 0)
    IN Effects(-pressure * 500, 20 * (1000 - isolation),
               30 * (1000 - isolation), 30 * (1000 - isolation))

_logic_europe_elevation(params) ==
    LET reduction == NumParam(params, "capacity_reduction", 120)
        import_dep == NumParam(params, "import_dependency", 200)
        duration == NumParam(params, "duration_months", 18)
        eu_effect == RoundDiv((reduction * 1500 + import_dep * 300) * Min(duration, 18), 12)
    IN Effects(reduction * 100, eu_effect, -reduction * 50, -reduction * 50)

_logic_apac_pressure(params) ==
    LET feedstock == NumParam(params, "feedstock_pressure", 80)
        shutdown == NumParam(params, "shutdown_impact", 50)
        duration == NumParam(params, "duration_months", 12)
        combined == RoundDiv((feedstock * 1000 + shutdown * 1500) * Min(duration, 12), 12)
    IN Effects(RoundDiv(combined * 15, 100), RoundDiv(combined * 2, 10),
               combined, RoundDiv(combined * 11, 10))

_logic_asian_undercut(params) ==
    LET discount == NumParam(params, "price_discount", 100)
        share_target == NumParam(params, "market_share_target", 50)
        duration == NumParam(params, "duration_months", 18)
        asia_cut == -RoundDiv(discount * 1000 * Min(duration, 18), 12)
        pressure == discount * share_target * 5
    IN Effects(-RoundDiv(pressure * 6, 10), -RoundDiv(pressure * 5, 10),
               asia_cut, RoundDiv(asia_cut * 11, 10))

_logic_eu_constraints(params) ==
    LET constraint == NumParam(params, "supply_constraint", 150)
        power == NumParam(params, "pricing_power", 800)
        duration == NumParam(params, "duration_months", 24)
        eu_increase == RoundDiv(constraint * power * Min(duration, 24), 12)
    IN Effects(constraint * 50, eu_increase, -constraint * 30, -constraint * 40)

\* The region the formula leaves at zero is left out of the returned dict.
_logic_us_stable_without_us(params) ==
    [ok |-> TRUE, effects |-> [eu_ech |-> 10000, asia_ech |-> 15000, china_ech |-> 20000]]

_logic_us_stable(params) == Effects(0, 10000, 15000, 20000)

\* A default handler that rejects the scenario instead of returning zeros
_logic_default_rejecting(params) == Raise("NotImplementedError")

_logic_default(params) ==
    [ok |-> TRUE, effects |-> [r \in RegionSet |-> 0]]

(***************************************************************************)
(* Calendar dates.  A date string 'YYYY-MM-DD' is held as the number       *)
(* YYYYMMDD, whose order is the order of the strings.                      *)
(***************************************************************************)
IsLeap(y) == (y % 4 = 0 /\ y % 100 # 0) \/ y % 400 = 0

DaysInMonth(y, m) ==
    IF m = 2 THEN (IF IsLeap(y) THEN 29 ELSE 28)
    ELSE IF m \in {4, 6, 9, 11} THEN 30 ELSE 31

\* datetime.strptime(s, '%Y-%m-%d')
strptime(s) == [year |-> s \div 10000, month |-> (s \div 100) % 100, day |-> s % 100]

\* d.strftime('%Y-%m-%d')
strftime(d) == d.year * 10000 + d.month * 100 + d.day

\* A fixed step of 30 days instead of a calendar month.
add_thirty_days(d, months) ==
    LET total == (d.year * 12 + (d.month - 1)) * 30 + (d.day - 1) + 30 * months
    IN [year |-> total \div 360, month |-> (total % 360) \div 30 + 1,
        day |-> Min((total % 30) + 1, DaysInMonth(total \div 360, (total % 360) \div 30 + 1))]

\* d + relativedelta(months=months): the month advances, the day is clamped
\* to the last day of the target month.
relativedelta_months(d, months) ==
    LET total == d.year * 12 + (d.month - 1) + months
        y == total \div 12
        m == (total % 12) + 1
    IN [year |-> y, month |-> m, day |-> Min(d.day, DaysInMonth(y, m))]

(***************************************************************************)
(* numpy's global random generator.  Its state is the seed it was last     *)
(* given and the number of draws taken since; a draw is a function of both.*)
(* A standard normal draw is held in thousandths.                          *)
(***************************************************************************)
ZTable == <<-1600, -700, -200, 0, 300, 900, 1400>>

NormalDraw(seed, n) ==
    ZTable[(((seed % 1000) * 37 + n * 5 + (seed % 11) * n * n) % 7) + 1]

\* np.random.seed(seed)
Seeded(seed) == [seed |-> seed, n |-> 0]

(***************************************************************************)
(* data_generator.py: the baseline file                                    *)
(***************************************************************************)
price_config ==
    [us_ech |-> [base |-> 6500, range |-> 1200, volatility |-> 30],
     eu_ech |-> [base |-> 9600, range |-> 1000, volatility |-> 40],
     asia_ech |-> [base |-> 6500, range |-> 600, volatility |-> 35],
     china_ech |-> [base |-> 5000, range |-> 1000, volatility |-> 40],
     glycerin |-> [base |-> 3600, range |-> 700, volatility |-> 60],
     propylene |-> [base |-> 4500, range |-> 900, volatility |-> 50]]

\* sin(2 * pi * i / 12) in thousandths
SinTwelfth(i) == <<0, 500, 866, 1000, 866, 500, 0, -500, -866, -1000, -866, -500>>[(i % 12) + 1]

RECURSIVE PriceWalk(_, _, _)
\* The loop of generate_price_series: prices so far, next index i, periods.
PriceWalk(config, prices, periods) ==
    IF Len(prices) >= periods THEN prices
    ELSE LET i == Len(prices)
             last == prices[Len(prices)]
             change == RoundDiv(config.base * config.volatility * NormalDraw(42, i - 1), 1000000)
             reversion == RoundDiv((config.base - last) * 5, 100)
             seasonal == RoundDiv(config.range * 3 * SinTwelfth(i), 10000)
             new_price == Max(config.base - config.range,
                              Min(config.base + config.range,
                                  last + change + reversion + seasonal))
         IN PriceWalk(config, Append(prices, new_price), periods)

generate_price_series(config, periods) ==
    IF periods <= 0 THEN <<>> ELSE PriceWalk(config, <<config.base>>, periods)

\* pd.date_range(start, periods, freq='M'): the month ends from the month of
\* start on (start is the first day of a month).
MonthEnds(start, periods) ==
    [k \in 1..periods |->
        LET d == relativedelta_months([year |-> start.year, month |-> start.month, day |-> 1], k - 1)
        IN strftime([year |-> d.year, month |-> d.month, day |-> DaysInMonth(d.year, d.month)])]

\* The object save_data writes and ScenarioEngine.__init__ loads.
generate_all_data(start, periods) ==
    [dates |-> MonthEnds(start, periods),
     prices |-> [name \in DOMAIN price_config |->
                    generate_price_series(price_config[name], periods)]]

(***************************************************************************)
(* scenario_engine.py: parameter resolution, dispatch, noise seed          *)
(***************************************************************************)
\* params.update(custom_params): every caller key is taken, known or not.
MergeParamsUpdate(defaults, custom_params) ==
    [k \in DOMAIN defaults \cup DOMAIN custom_params |->
        IF k \in DOMAIN custom_params THEN custom_params[k] ELSE defaults[k]]

\* apply_scenario, "Merge custom parameters with defaults".  custom_params
\* None and {} are both falsy there; the empty mapping stands for both.
MergeParams(defaults, custom_params) ==
    [k \in DOMAIN defaults |->
        IF k \in DOMAIN custom_params THEN custom_params[k] ELSE defaults[k]]

_calculate_price_effects(scenario, params) ==
    LET logic == Get(scenario, "logic", "default")
    IN CASE logic = "demand_growth" -> _logic_demand_growth(params)
         [] logic = "apac_growth" -> _logic_apac_growth(params)
         [] logic = "bio_adoption" -> _logic_bio_adoption(params)
         [] logic = "epoxy_demand" -> _logic_epoxy_demand(params)
         [] logic = "feedstock_shift" -> _logic_feedstock_shift(params)
         [] logic = "eu_regulatory" -> _logic_eu_regulatory(params)
         [] logic = "asian_advantage" -> _logic_asian_advantage(params)
         [] logic = "plant_shutdown" -> _logic_plant_shutdown(params)
         [] logic = "supply_disruption" -> _logic_supply_disruption(params)
         [] logic = "capacity_expansion" -> _logic_capacity_expansion(params)
         [] logic = "americas_stability" -> _logic_americas_stability(params)
         [] logic = "europe_elevation" -> _logic_europe_elevation(params)
         [] logic = "apac_pressure" -> _logic_apac_pressure(params)
         [] logic = "asian_undercut" -> _logic_asian_undercut(params)
         [] logic = "eu_constraints" -> _logic_eu_constraints(params)
         [] logic = "us_stable" -> _logic_us_stable(params)
         [] OTHER -> _logic_default(params)

\* Every string the program hashes: the catalog's parameter names, the names
\* callers send that the catalog does not know, and string parameter values.
HashedStrings ==
    <<"duration_months", "demand_growth_rate", "price_elasticity", "apac_growth_premium",
      "global_spillover", "bio_adoption_rate", "glycerine_cost_factor", "epoxy_demand_growth",
      "infrastructure_boost", "glycerine_share_change", "propylene_price_change",
      "glycerine_price_change", "supply_reduction", "compliance_cost",
      "glycerine_cost_advantage", "competitive_intensity", "capacity_offline",
      "region_affected", "disruption_severity", "recovery_months", "capacity_addition",
      "ramp_up_months", "isolation_factor", "competitive_pressure", "capacity_reduction",
      "import_dependency", "feedstock_pressure", "shutdown_impact", "price_discount",
      "market_share_target", "supply_constraint", "pricing_power", "output_stability",
      "price_volatility_reduction", "eu", "us", "asia", "china", "volatility", "mars", "">>

\* hash(str): salted per process (PYTHONHASHSEED), fixed within one process.
StrHash(s, salt) ==
    LET i == CHOOSE j \in DOMAIN HashedStrings : HashedStrings[j] = s
    IN (i * 131 + salt * 7919 + ((i * salt) % 17)) % 100003

\* hash of a parameter value: an int hashes to itself, a str is salted.
ValueHash(v, salt) == IF IsNum(v) THEN Abs(v.num) % 10007 ELSE StrHash(v.str, salt)

RECURSIVE ItemsHash(_, _, _)
\* hash(frozenset(params.items())) over the keys still to visit: a sum, so
\* the order in which the items are visited does not matter.
ItemsHash(params, keys, salt) ==
    IF keys = {} THEN 0
    ELSE LET k == CHOOSE x \in keys : TRUE
         IN ((StrHash(k, salt) % 9973) * ((ValueHash(params[k], salt) % 9973) + 1)
             + ItemsHash(params, keys \ {k}, salt)) % 1000003

\* int(abs(hash(frozenset(params.items()))) % 100000)
NoiseSeed(params, salt) == Abs(ItemsHash(params, DOMAIN params, salt)) % 100000

(***************************************************************************)
(* scenario_engine.py: _apply_effects                                      *)
(***************************************************************************)
\* start with the loop run over range(total_periods): every period is
\* rewritten.
StartIndexFromFirst(total_periods) == 0

\* int(total_periods * 0.2)
StartIndex(total_periods) == (total_periods * 2) \div 10

\* current_effect with progress = (i - start) / ramp: the ramp starts from
\* zero and is complete one period later.
PhaseEffectFromZero(effect, i, start, ramp, end) ==
    IF i < start + ramp THEN RoundDiv(effect * (i - start), ramp)
    ELSE IF i < end THEN effect
    ELSE RoundDiv(effect * (120 - 4 * Min(i - end, 12)), 120)

\* current_effect with decay = (i - end) / 12, not capped at 1.0: the effect
\* keeps falling after twelve periods of decay.
PhaseEffectDecayUncapped(effect, i, start, ramp, end) ==
    IF i < start + ramp THEN RoundDiv(effect * (i - start + 1), ramp)
    ELSE IF i < end THEN effect
    ELSE RoundDiv(effect * (120 - 4 * (i - end)), 120)

\* "if i <= start + ramp": the period after the ramp takes the ramp branch
\* too.
RampBranchTakenThrough(i, start, ramp) == i <= start + ramp

\* "if i < start + ramp": the branch of the loop that divides by ramp.
RampBranchTaken(i, start, ramp) == i < start + ramp

\* current_effect of period i (0-based), in millionths.
PhaseEffect(effect, i, start, ramp, end) ==
    IF RampBranchTaken(i, start, ramp) THEN RoundDiv(effect * (i - start + 1), ramp)
    ELSE IF i < end THEN effect
    ELSE RoundDiv(effect * (120 - 4 * Min(i - end, 12)), 120)

\* start, ramp and end of the envelope
PhaseWindow(duration, total_periods) ==
    [start |-> StartIndex(total_periods),
     ramp |-> Min(6, duration \div 3),
     end |-> Min(StartIndex(total_periods) + duration, total_periods)]

\* The loop over range(start, total_periods) reaches "(i - start + 1) / ramp"
\* with ramp = 0: ZeroDivisionError.
EnvelopeRaises(duration, total_periods) ==
    \E w \in {PhaseWindow(duration, total_periods)} :
        /\ w.ramp = 0
        /\ \E i \in w.start..(total_periods - 1) : RampBranchTaken(i, w.start, w.ramp)

\* current_effect of the periods start .. total_periods - 1, in loop order
PhaseEnvelope(effect, duration, total_periods) ==
    [k \in 1..Max(total_periods - StartIndex(total_periods), 0) |->
        PhaseEffect(effect, StartIndex(total_periods) + k - 1,
                    PhaseWindow(duration, total_periods).start,
                    PhaseWindow(duration, total_periods).ramp,
                    PhaseWindow(duration, total_periods).end)]

\* The regions of self.regions that the baseline has, in order.
PresentRegions(prices) == SelectSeq(regions, LAMBDA r : r \in DOMAIN prices)

\* The dict {r: F(r, i)} over the i-th regions r of order, i >= j, every
\* entry computed once
RegionMap(order, j, F(_, _)) ==
    [r \in {order[i] : i \in j..Len(order)} |->
        F(r, CHOOSE i \in DOMAIN order : order[i] = r)] @@ <<>>

RECURSIVE SimulatedLoop(_, _, _, _)
\* "for i in range(start, total_periods)": result so far (periods before i),
\* w = [effect, start, ramp, end, total_periods, seed, drawsBefore].
SimulatedLoop(baseline, w, i, result) ==
    IF i >= Len(baseline) THEN result
    ELSE IF i < w.start \/ i >= w.total_periods
    THEN SimulatedLoop(baseline, w, i + 1, Append(result, baseline[i + 1]))
    ELSE LET current_effect == PhaseEffect(w.effect, i, w.start, w.ramp, w.end)
             \* np.random.normal(0, 0.008)
             noise == 8 * NormalDraw(w.seed, w.drawsBefore + (i - w.start))
             value == RoundDiv(baseline[i + 1] * RoundDiv(1000000 + current_effect + noise, 100),
                               10000)
         IN SimulatedLoop(baseline, w, i + 1, Append(result, value))

\* The series of one region given the generator state at the start of the
\* region's loop; drawsBefore noise draws were taken since seeding.
SimulatedRegion(baseline, effect, duration, total_periods, seed, drawsBefore) ==
    SimulatedLoop(baseline,
                  [effect |-> effect, total_periods |-> total_periods, seed |-> seed,
                   drawsBefore |-> drawsBefore] @@ PhaseWindow(duration, total_periods),
                  0, <<>>)

\* _apply_effects with the generator left as the caller found it (no
\* np.random.seed): the noise continues the previous stream.
_apply_effects_unseeded(effects, params, dates, prices, salt, rng) ==
    LET duration == NumParam(params, "duration_months", 12)
        total_periods == Len(dates)
        perRegion == Max(total_periods - StartIndex(total_periods), 0)
        present == PresentRegions(prices)
    IN [simulated |->
          RegionMap(present, 1, LAMBDA r, j :
              SimulatedRegion(prices[r], Get(effects, r, 0), duration, total_periods,
                              rng.seed, rng.n + (j - 1) * perRegion)),
        rng |-> [seed |-> rng.seed, n |-> rng.n + Len(present) * perRegion]]

\* _apply_effects: returns the simulated series and the generator state it
\* leaves behind.
_apply_effects(effects, params, dates, prices, salt, rng) ==
    LET duration == NumParam(params, "duration_months", 12)
        total_periods == Len(dates)
        seed == NoiseSeed(params, salt)
        perRegion == Max(total_periods - StartIndex(total_periods), 0)
        present == PresentRegions(prices)
    IN [simulated |->
          RegionMap(present, 1, LAMBDA r, j :
              SimulatedRegion(prices[r], Get(effects, r, 0), duration, total_periods,
                              seed, (j - 1) * perRegion)),
        rng |-> [seed |-> seed, n |-> Len(present) * perRegion]]

(***************************************************************************)
(* scenario_engine.py: _calculate_metrics                                  *)
(***************************************************************************)
RECURSIVE SeqSum(_)
SeqSum(s) == IF s = <<>> THEN 0 ELSE s[1] + SeqSum(Tail(s))

RECURSIVE SeqMax(_)
SeqMax(s) == IF Len(s) = 1 THEN s[1] ELSE Max(s[1], SeqMax(Tail(s)))

RECURSIVE SeqMin(_)
SeqMin(s) == IF Len(s) = 1 THEN s[1] ELSE Min(s[1], SeqMin(Tail(s)))

\* np.mean, in the unit of the series
Mean(s) == RoundDiv(SeqSum(s), Len(s))

\* _calculate_metrics without the "continue" of its loop: a region that was
\* not simulated gets metrics of zero.
_calculate_metrics_every_region(simulated, prices) ==
    [r \in RegionSet |->
        IF r \in DOMAIN simulated /\ r \in DOMAIN prices
        THEN [baseline_avg |-> Mean(prices[r]),
              simulated_avg |-> Mean(simulated[r]),
              change_percent |-> RoundHalfEven((Mean(simulated[r]) - Mean(prices[r])) * 10000,
                                               Mean(prices[r])),
              max_price |-> SeqMax(simulated[r]),
              min_price |-> SeqMin(simulated[r])]
        ELSE [baseline_avg |-> 0, simulated_avg |-> 0, change_percent |-> 0,
              max_price |-> 0, min_price |-> 0]]

_calculate_metrics(simulated, prices) ==
    RegionMap(SelectSeq(regions, LAMBDA x : x \in DOMAIN simulated /\ x \in DOMAIN prices), 1,
              LAMBDA r, j :
                LET base_avg == Mean(prices[r])
                    sim_avg == Mean(simulated[r])
                IN [baseline_avg |-> base_avg,
                    simulated_avg |-> sim_avg,
                    change_percent |-> RoundHalfEven((sim_avg - base_avg) * 10000, base_avg),
                    max_price |-> SeqMax(simulated[r]),
                    min_price |-> SeqMin(simulated[r])])

(***************************************************************************)
(* scenario_engine.py: the fallback forecast.  Inside the forecast loop    *)
(* prices are held in hundred-thousandths, ten times finer than the four   *)
(* decimals round(x, 4) keeps.                                             *)
(***************************************************************************)
RECURSIVE SqrtSearch(_, _, _)
\* The largest r in lo..hi with r * r <= n.
SqrtSearch(n, lo, hi) ==
    IF lo >= hi THEN lo
    ELSE LET mid == (lo + hi + 1) \div 2
         IN IF mid * mid <= n THEN SqrtSearch(n, mid, hi) ELSE SqrtSearch(n, lo, mid - 1)

\* floor(sqrt(n)) for 0 <= n < 2^30
ISqrt(n) == SqrtSearch(n, 0, 32767)

RECURSIVE SquareSum(_, _, _)
\* sum((x - m) ** 2) / n over the elements of s
SquareSum(s, m, n) ==
    IF s = <<>> THEN 0
    ELSE RoundDiv((s[1] - m) * (s[1] - m), n) + SquareSum(Tail(s), m, n)

\* np.std(prices_arr), in the unit of the series
Std(s) == ISqrt(SquareSum(s, Mean(s), Len(s)))

\* round(x, 4) of a value held in hundred-thousandths
Round4(x) == RoundHalfEven(x, 10)

\* "months=12" of _generate_forecast
ForecastMonths == 12

RECURSIVE PowStep(_)
PowStep(i) == IF i = 0 THEN 10000 ELSE RoundDiv(PowStep(i - 1) * 85, 100)

\* The powers and roots the forecast loop of ForecastMonths steps asks for,
\* computed once.
PowTable == [i \in 1..ForecastMonths |-> PowStep(i - 1)]

SqrtTable == [k \in 1..ForecastMonths |-> ISqrt(k * 1000000)]

\* 0.85 ** i in ten-thousandths
Pow85(i) == IF i + 1 \in DOMAIN PowTable THEN PowTable[i + 1] ELSE PowStep(i)

\* np.sqrt(k) in thousandths
SqrtMilli(k) == IF k \in DOMAIN SqrtTable THEN SqrtTable[k] ELSE ISqrt(k * 1000000)

\* _estimate_seasonality: twelve monthly adjustments in hundred-thousandths,
\* or <<>> for None.
_estimate_seasonality(prices, period) ==
    IF Len(prices) < period * 2 THEN <<>>
    ELSE LET n_years == Len(prices) \div period
             \* mean of month m over the complete years, hundred-thousandths
             monthly == Tabulate(period, 1, LAMBDA m :
                 RoundDiv(10 * SeqSum(Tabulate(n_years, 1,
                                               LAMBDA y : prices[(y - 1) * period + m])),
                          n_years))
             overall == RoundDiv(SeqSum(monthly), period)
         IN Tabulate(period, 1, LAMBDA m : RoundDiv((monthly[m] - overall) * 5, 100))

RECURSIVE SimpleStepsNoiseCarried(_, _, _, _, _)
\* The forecast loop with "current = current + ... + noise": the reported
\* point is the value carried into the next step.
SimpleStepsNoiseCarried(ctx, i, months, current, acc) ==
    IF i >= months THEN acc
    ELSE LET trend_effect == RoundDiv(ctx.trend6 * Pow85(i), 6000)
             reversion == RoundDiv((ctx.mean_price - current) * 8, 100)
             season_idx == (ctx.last_month_idx + i) % 12
             seasonal == IF ctx.seasonality # <<>> THEN ctx.seasonality[season_idx + 1] ELSE 0
             noise == RoundDiv(ctx.std_price * 3 * NormalDraw(42, i), 100000)
             point == current + trend_effect + reversion + seasonal + noise
             uncertainty == RoundDiv(ctx.std_price * SqrtMilli(i + 1) * 2, 10000)
         IN SimpleStepsNoiseCarried(ctx, i + 1, months, point,
                                    Append(acc, [current |-> point, point |-> point,
                                                 uncertainty |-> uncertainty]))

RECURSIVE SimpleSteps(_, _, _, _, _)
\* The forecast loop of one region from step i on: one record per step with
\* the value carried forward (current), the reported point and the
\* uncertainty, all in hundred-thousandths.
SimpleSteps(ctx, i, months, current, acc) ==
    IF i >= months THEN acc
    ELSE LET trend_effect == RoundDiv(ctx.trend6 * Pow85(i), 6000)
             reversion == RoundDiv((ctx.mean_price - current) * 8, 100)
             season_idx == (ctx.last_month_idx + i) % 12
             seasonal == IF ctx.seasonality # <<>> THEN ctx.seasonality[season_idx + 1] ELSE 0
             next == current + trend_effect + reversion + seasonal
             \* np.random.normal(0, std_price * 0.03) after np.random.seed(42)
             noise == RoundDiv(ctx.std_price * 3 * NormalDraw(42, i), 100000)
             point == next + noise
             uncertainty == RoundDiv(ctx.std_price * SqrtMilli(i + 1) * 2, 10000)
         IN SimpleSteps(ctx, i + 1, months, next,
                        Append(acc, [current |-> next, point |-> point,
                                     uncertainty |-> uncertainty]))

\* The statistics _generate_simple_forecast takes from one region's series.
SimpleContext(prices) ==
    LET n == Len(prices)
        first6 == IF n >= 6 THEN prices[n - 5] ELSE prices[1]
    IN [mean_price |-> RoundDiv(10 * SeqSum(prices), n),
        std_price |-> 10 * Std(prices),
        \* (last_6[-1] - last_6[0]), the numerator of the trend; 0 when the
        \* slice has a single element
        trend6 |-> IF Min(n, 6) > 1 THEN prices[n] - first6 ELSE 0,
        seasonality |-> _estimate_seasonality(prices, 12),
        last_month_idx |-> n % 12]

\* upper bound computed with the sign of the lower bound
SimpleBoundsSwapped(step) ==
    [point |-> Round4(step.point),
     lower_95 |-> Round4(step.point + RoundDiv(196 * step.uncertainty, 100)),
     upper_95 |-> Round4(step.point - RoundDiv(196 * step.uncertainty, 100))]

\* The three values appended for one step.
SimpleBounds(step) ==
    [point |-> Round4(step.point),
     lower_95 |-> Round4(step.point - RoundDiv(196 * step.uncertainty, 100)),
     upper_95 |-> Round4(step.point + RoundDiv(196 * step.uncertainty, 100))]

SimpleRegion(prices, months) ==
    LET steps == SimpleSteps(SimpleContext(prices), 0, months, 10 * prices[Len(prices)], <<>>)
        bounds == Tabulate(months, 1, LAMBDA k : SimpleBounds(steps[k]))
    IN [point |-> Tabulate(months, 1, LAMBDA k : bounds[k].point),
        lower_95 |-> Tabulate(months, 1, LAMBDA k : bounds[k].lower_95),
        upper_95 |-> Tabulate(months, 1, LAMBDA k : bounds[k].upper_95)]

\* forecast['dates'] stepping by 30 days
ForecastDatesFixedStep(dates, months) ==
    Tabulate(months, 1, LAMBDA k : strftime(add_thirty_days(strptime(dates[Len(dates)]), k)))

\* forecast['dates']
ForecastDates(dates, months) ==
    Tabulate(months, 1, LAMBDA k : strftime(relativedelta_months(strptime(dates[Len(dates)]), k)))

\* A forecast dict: the per-region entries plus dates, model and
\* confidence_interval.
\* The forecast dict tagged 'prophet' whichever strategy filled it
ForecastDictTaggedProphet(perRegion, dates, months, model) ==
    perRegion @@ [dates |-> ForecastDates(dates, months), model |-> "prophet",
                  confidence_interval |-> "95%"]

ForecastDict(perRegion, dates, months, model) ==
    perRegion @@ [dates |-> ForecastDates(dates, months), model |-> model,
                  confidence_interval |-> "95%"]

\* _generate_simple_forecast: the forecast and the generator state it leaves
\* (np.random.seed(42) then `months` draws per region).
_generate_simple_forecast(simulated, params, months, dates, rng) ==
    IF Len(dates) = 0 THEN Raise("IndexError")
    ELSE [ok |-> TRUE,
          forecast |-> ForecastDict(RegionMap(SelectSeq(regions, LAMBDA r : r \in DOMAIN simulated), 1,
                                              LAMBDA r, j : SimpleRegion(simulated[r], months)),
                                    dates, months, "simple_fallback"),
          rng |-> IF DOMAIN simulated = {} THEN rng ELSE [seed |-> 42, n |-> months]]

(***************************************************************************)
(* scenario_engine.py: the Prophet forecast.  Prophet itself is a library: *)
(* its fit and predict are held as a function of what the code hands it    *)
(* (the series, the configuration, the regressor) and of numpy's global    *)
(* generator, which its predictive sampling draws from; the interval it    *)
(* returns contains its point estimate.  That it raises is a condition of  *)
(* its environment (prophetFailAt below).                                  *)
(***************************************************************************)
\* int(total_periods * 0.2) + scenario_duration > total_periods
scenario_ongoing(params, total_periods) ==
    StartIndex(total_periods) + NumParam(params, "duration_months", 12) > total_periods

\* _create_scenario_regressor, in thousandths
_create_scenario_regressor(n_periods, params, total_periods) ==
    LET duration == NumParam(params, "duration_months", 12)
        start == StartIndex(total_periods)
        ramp == Min(6, duration \div 3)
        end == Min(start + duration, total_periods)
    IN Tabulate(n_periods, 1, LAMBDA p :
          LET i == p - 1
          IN IF i < start THEN 0
             ELSE IF i < start + ramp THEN RoundDiv(1000 * (i - start + 1), ramp)
             ELSE IF i < end THEN 1000
             ELSE RoundDiv(1000 * (120 - 4 * Min(i - end, 12)), 120))

\* _extend_scenario_regressor with the decay of the historical part
\* (1 - decay * 0.4) carried on into the forecast period.
_extend_scenario_regressor_historical_decay(params, total_periods, forecast_months) ==
    LET duration == NumParam(params, "duration_months", 12)
        start == StartIndex(total_periods)
        end == start + duration
        historical == _create_scenario_regressor(total_periods, params, total_periods)
    IN Tabulate(total_periods + forecast_months, 1, LAMBDA p :
          LET i == p - 1
          IN IF i < total_periods THEN historical[p]
             ELSE IF i < end THEN 1000
             ELSE Max(0, RoundDiv(1000 * (120 - 4 * Min(i - end, 12)), 120)))

\* _extend_scenario_regressor over the total_periods + forecast_months rows
\* of the future frame, in thousandths
_extend_scenario_regressor(params, total_periods, forecast_months) ==
    LET duration == NumParam(params, "duration_months", 12)
        start == StartIndex(total_periods)
        end == start + duration
        historical == _create_scenario_regressor(total_periods, params, total_periods)
    IN Tabulate(total_periods + forecast_months, 1, LAMBDA p :
          LET i == p - 1
          IN IF i < total_periods THEN historical[p]
             ELSE IF i < end THEN 1000
             ELSE Max(0, RoundDiv(1000 * (120 - 6 * Min(i - end, 12)), 120)))

\* model.fit(df); model.predict(future); .tail(months) for one region, in
\* hundred-thousandths.  drawsBefore: draws taken from the generator since
\* it was seeded, when predict starts.
ProphetPredict(prices, params, total_periods, months, prophet_config, rng, drawsBefore) ==
    LET n == Len(prices)
        flex == IF prophet_config.changepoint_prior_scale > 50 THEN 2 ELSE 1
        slope == RoundDiv((prices[n] - prices[1]) * 10 * flex, n)
        ongoing == scenario_ongoing(params, total_periods)
        regressor == IF ongoing
                     THEN _extend_scenario_regressor(params, total_periods, months)
                     ELSE Tabulate(total_periods + months, 1, LAMBDA p : 0)
        width == RoundDiv(10 * Std(prices) * prophet_config.interval_width, 500)
    IN Tabulate(months, 1, LAMBDA k :
          LET trend == 10 * prices[n] + slope * k
              yearly == IF prophet_config.yearly_seasonality = TRUE
                        THEN RoundDiv(SinTwelfth(n + k) * 2, 100) ELSE 0
              yhat == trend + RoundDiv(trend * yearly, 10000)
                      + RoundDiv(regressor[total_periods + k], 10)
              sample == Abs(NormalDraw(rng.seed, rng.n + drawsBefore + k))
          IN [yhat |-> yhat,
              yhat_lower |-> yhat - width - sample,
              yhat_upper |-> yhat + width + RoundDiv(sample, 2),
              trend |-> trend,
              yearly |-> yearly])

\* forecast[region] of _generate_prophet_forecast
ProphetRegion(prices, params, total_periods, months, prophet_config, rng, drawsBefore) ==
    LET f == ProphetPredict(prices, params, total_periods, months, prophet_config, rng,
                            drawsBefore)
        base == [point |-> Tabulate(months, 1, LAMBDA k : Round4(f[k].yhat)),
                 lower_95 |-> Tabulate(months, 1, LAMBDA k : Round4(f[k].yhat_lower)),
                 upper_95 |-> Tabulate(months, 1, LAMBDA k : Round4(f[k].yhat_upper)),
                 trend |-> Tabulate(months, 1, LAMBDA k : Round4(f[k].trend))]
    IN IF prophet_config.yearly_seasonality = TRUE
       THEN base @@ [seasonality |-> Tabulate(months, 1, LAMBDA k : f[k].yearly)]
       ELSE base

\* _generate_prophet_forecast.  failAt = j > 0: Prophet raises while the
\* j-th region of simulated is fitted or predicted.
_generate_prophet_forecast(simulated, params, months, dates, prophet_config, rng, failAt) ==
    LET total_periods == Len(dates)
        order == SelectSeq(regions, LAMBDA r : r \in DOMAIN simulated)
    IN IF failAt \in 1..Len(order) THEN Raise("ProphetError")
       \* Prophet.fit: "Dataframe has less than 2 non-NaN rows"
       ELSE IF \E j \in DOMAIN order : Len(simulated[order[j]]) < 2 THEN Raise("ProphetError")
       ELSE IF Len(dates) = 0 THEN Raise("IndexError")
       ELSE [ok |-> TRUE,
             forecast |->
               ForecastDict(RegionMap(order, 1, LAMBDA r, j :
                               ProphetRegion(simulated[r], params, total_periods, months,
                                             prophet_config, rng, (j - 1) * months)),
                            dates, months, "prophet"),
             rng |-> [seed |-> rng.seed, n |-> rng.n + Len(order) * months]]

\* _generate_forecast without the try/except around the Prophet call
_generate_forecast_unguarded(simulated, params, months, dates, prophet_config, rng, available, failAt) ==
    IF available
    THEN _generate_prophet_forecast(simulated, params, months, dates, prophet_config, rng, failAt)
    ELSE _generate_simple_forecast(simulated, params, months, dates, rng)

\* _generate_forecast with the fallback filling in only the regions Prophet
\* had not reached when it raised: the regions forecast before the failure
\* keep Prophet's values.
_generate_forecast_partial_kept(simulated, params, months, dates, prophet_config, rng, available, failAt) ==
    IF available
    THEN With(_generate_prophet_forecast(simulated, params, months, dates,
                                         prophet_config, rng, failAt),
              LAMBDA primary :
                 IF primary.ok THEN primary
                 ELSE
                 With(_generate_simple_forecast(simulated, params, months, dates, rng),
                      LAMBDA fallback :
                   With(_generate_prophet_forecast(simulated, params, months, dates,
                                                   prophet_config, rng, 0),
                        LAMBDA whole :
                     IF ~fallback.ok \/ ~whole.ok THEN fallback
                     ELSE [fallback EXCEPT !.forecast =
                             [k \in DOMAIN fallback.forecast |->
                                 IF \E j \in 1..(failAt - 1) : j \in DOMAIN regions /\ regions[j] = k
                                 THEN whole.forecast[k]
                                 ELSE fallback.forecast[k]]])))
    ELSE _generate_simple_forecast(simulated, params, months, dates, rng)

\* _generate_forecast
_generate_forecast(simulated, params, months, dates, prophet_config, rng, available, failAt) ==
    IF available
    THEN With(_generate_prophet_forecast(simulated, params, months, dates,
                                         prophet_config, rng, failAt),
              LAMBDA primary :
                 IF primary.ok THEN primary
                 ELSE _generate_simple_forecast(simulated, params, months, dates, rng))
    ELSE _generate_simple_forecast(simulated, params, months, dates, rng)

\* PROPHET_AVAILABLE with a failure of Prophet taken as final: once the
\* fallback has stood in, the primary is not tried again.
AvailableAfterForecastDowngraded(available, model) ==
    available /\ model = "prophet"

\* PROPHET_AVAILABLE once _generate_forecast has returned a forecast tagged
\* `model`: the except clause prints and calls the fallback, and nothing
\* assigns the module's flag.
AvailableAfterForecast(available, model) == available

(***************************************************************************)
(* scenario_engine.py: apply_scenario                                      *)
(***************************************************************************)
\* 'price_effects': round(v * 100, 2), in hundredths of a percent
ReportedEffects(effects) == [r \in DOMAIN effects |-> RoundHalfEven(effects[r], 100)]

\* The state of the process apply_scenario reads: the engine's fields, the
\* module flag PROPHET_AVAILABLE, the hash salt, numpy's generator and the
\* condition of the Prophet installation.
EngineView(d, p, cfg, available, salt, r, failAt) ==
    [dates |-> d, prices |-> p, prophet_config |-> cfg, available |-> available,
     salt |-> salt, rng |-> r, failAt |-> failAt]

\* The dict apply_scenario returns.
ScenarioResult(scenario_id, scenario, params, effects, simulated, metrics, forecast, e) ==
    [scenario_id |-> scenario_id,
     affected_regions |-> scenario.affected_regions,
     parameters_used |-> params,
     price_effects |-> ReportedEffects(effects),
     simulated_prices |-> simulated,
     baseline_prices |-> e.prices,
     metrics |-> metrics,
     forecast |-> forecast,
     dates |-> e.dates]

\* apply_scenario from "price_effects = ..." on, params being merged
ApplyMerged(scenario_id, scenario, params, e) ==
    With(_calculate_price_effects(scenario, params), LAMBDA price_effects :
      IF ~price_effects.ok
      THEN [ok |-> FALSE, error |-> price_effects.error, rng |-> e.rng]
      ELSE
      With(_apply_effects(price_effects.effects, params, e.dates, e.prices, e.salt, e.rng),
           LAMBDA applied :
        With(_calculate_metrics(applied.simulated, e.prices), LAMBDA metrics :
          With(_generate_forecast(applied.simulated, params, ForecastMonths, e.dates,
                                  e.prophet_config, applied.rng, e.available, e.failAt),
               LAMBDA forecast :
            IF ~forecast.ok
            THEN [ok |-> FALSE, error |-> forecast.error, rng |-> applied.rng]
            ELSE [ok |-> TRUE, rng |-> forecast.rng,
                  result |-> ScenarioResult(scenario_id, scenario, params,
                                            price_effects.effects, applied.simulated,
                                            metrics, forecast.forecast, e)]))))

\* apply_scenario with the catalog lookup unchecked: an unknown id runs on
\* with an empty scenario.
apply_scenario_unchecked(scenario_id, custom_params, e) ==
    With(get_scenario(scenario_id), LAMBDA found :
      With(IF found = None
           THEN [id |-> scenario_id, affected_regions |-> {},
                 parameters |-> [duration_months |-> [num |-> 12]]]
           ELSE found,
           LAMBDA scenario :
             ApplyMerged(scenario_id, scenario,
                         MergeParams(scenario.parameters, custom_params), e)))

\* apply_scenario: [ok |-> TRUE, result, rng] or [ok |-> FALSE, error, rng],
\* rng being the generator state the call leaves.
apply_scenario(scenario_id, custom_params, e) ==
    With(get_scenario(scenario_id), LAMBDA scenario :
      IF scenario = None THEN [ok |-> FALSE, error |-> "ValueError", rng |-> e.rng]
      ELSE ApplyMerged(scenario_id, scenario,
                       MergeParams(scenario.parameters, custom_params), e))

\* models.SCENARIOS[id]['parameters'] of every scenario, as the module defines
\* them at import.
CatalogParameters == [id \in DOMAIN SCENARIOS |-> SCENARIOS[id].parameters]

\* apply_scenario writing the caller's values into scenario['parameters']
\* itself, the dict get_scenario hands out.
CatalogAfterCallAliased(defaults, scenario_id, custom_params) ==
    IF scenario_id \in DOMAIN defaults
    THEN [defaults EXCEPT ![scenario_id] = MergeParams(@, custom_params)]
    ELSE defaults

\* The catalog's parameters once apply_scenario has returned or raised:
\* get_scenario hands out the catalog's own dict, params is
\* scenario['parameters'].copy(), and the caller's values are assigned to
\* params only.
CatalogAfterCall(defaults, scenario_id, custom_params) == defaults

\* self.prices once apply_scenario has returned or raised: _apply_effects
\* builds each series from np.array(self.prices[region]).copy() and stores
\* result.tolist() in a new dict.
BaselineAfterCall(baseline, call) == baseline

(***************************************************************************)
(* scenario_engine.py: utility methods                                     *)
(***************************************************************************)
\* Prophet(yearly_seasonality=True, weekly_seasonality=False,
\* daily_seasonality=False) of get_forecast_components: the library's own
\* defaults for the rest
ComponentsProphetConfig ==
    [yearly_seasonality |-> TRUE, weekly_seasonality |-> FALSE, daily_seasonality |-> FALSE,
     seasonality_mode |-> "additive", changepoint_prior_scale |-> 50,
     seasonality_prior_scale |-> 10000, interval_width |-> 800]

\* components[region] of get_forecast_components: the rows of the future
\* frame and the forecast of its last 12 rows
ComponentsRegion(prices, total_periods, rng, drawsBefore) ==
    [rows |-> total_periods + 12,
     future |-> ProphetPredict(prices, [duration_months |-> [num |-> 0]], total_periods, 12,
                               ComponentsProphetConfig, rng, drawsBefore)]

\* get_forecast_components once apply_scenario has returned `call`
ComponentsOf(call, e) ==
    IF ~call.ok THEN call
    ELSE IF e.failAt \in 1..Cardinality(DOMAIN call.result.simulated_prices)
            \/ \E r \in DOMAIN call.result.simulated_prices :
                   Len(call.result.simulated_prices[r]) < 2
    THEN [ok |-> FALSE, error |-> "ProphetError", rng |-> call.rng]
    ELSE [ok |-> TRUE,
          result |-> RegionMap(SelectSeq(regions, LAMBDA r : r \in DOMAIN call.result.simulated_prices),
                               1, LAMBDA r, j :
                                  ComponentsRegion(call.result.simulated_prices[r], Len(e.dates),
                                                   call.rng, (j - 1) * 12)),
          rng |-> [seed |-> call.rng.seed,
                   n |-> call.rng.n + 12 * Cardinality(DOMAIN call.result.simulated_prices)]]

\* get_forecast_components
get_forecast_components(scenario_id, custom_params, e) ==
    IF ~e.available
    THEN [ok |-> TRUE, result |-> [error |-> "Prophet not available"], rng |-> e.rng]
    ELSE ComponentsOf(apply_scenario(scenario_id, custom_params, e), e)

\* self.prophet_config.update(kwargs): every key is taken, valid or not
update_prophet_config_any_key(prophet_config, kwargs) ==
    [k \in DOMAIN prophet_config \cup DOMAIN kwargs |->
        IF k \in DOMAIN kwargs THEN kwargs[k] ELSE prophet_config[k]]

RECURSIVE UpdateConfigLoop(_, _, _)
\* "for key, value in kwargs.items()" over the keys still to visit
UpdateConfigLoop(prophet_config, kwargs, keys) ==
    IF keys = {} THEN prophet_config
    ELSE LET key == CHOOSE k \in keys : TRUE
         IN UpdateConfigLoop(IF key \in DOMAIN prophet_config
                             THEN [prophet_config EXCEPT ![key] = kwargs[key]]
                             ELSE prophet_config,
                             kwargs, keys \ {key})

\* update_prophet_config: the configuration it leaves
update_prophet_config(prophet_config, kwargs) ==
    UpdateConfigLoop(prophet_config, kwargs, DOMAIN kwargs)

\* The keys update_prophet_config prints a warning for
UpdateWarnings(prophet_config, kwargs) == DOMAIN kwargs \ DOMAIN prophet_config

\* The methods class ScenarioEngine defines.
ScenarioEngineMethods ==
    {"__init__", "apply_scenario", "_calculate_price_effects", "_logic_demand_growth",
     "_logic_apac_growth", "_logic_bio_adoption", "_logic_epoxy_demand",
     "_logic_feedstock_shift", "_logic_eu_regulatory", "_logic_asian_advantage",
     "_logic_plant_shutdown", "_logic_supply_disruption", "_logic_capacity_expansion",
     "_logic_americas_stability", "_logic_europe_elevation", "_logic_apac_pressure",
     "_logic_asian_undercut", "_logic_eu_constraints", "_logic_us_stable", "_logic_default",
     "_apply_effects", "_calculate_metrics", "_generate_forecast",
     "_generate_prophet_forecast", "_create_scenario_regressor",
     "_extend_scenario_regressor", "_generate_simple_forecast", "_estimate_seasonality",
     "get_forecast_components", "update_prophet_config"}

(***************************************************************************)
(* State                                                                   *)
(***************************************************************************)
VARIABLES
    dates,              \* engine.dates
    prices,             \* engine.prices
    prophet_config,     \* engine.prophet_config
    PROPHET_AVAILABLE,  \* scenario_engine.PROPHET_AVAILABLE, set at import
    entropy,            \* the randomness the process started with
    rng,                \* numpy's global generator: [seed, n]
    prophetFailAt,      \* 0, or the region at which Prophet raises just now
    response,           \* the last request and the response it got
    applyCalls,         \* apply_scenario calls made while serving it
    earlier,            \* an earlier simulate request, kept for comparison
    deployment,         \* the data file and the second gunicorn worker
    inflight,           \* apply_scenario calls of engine instances running in threads
    catalog             \* models.SCENARIOS[id]['parameters'] as the calls left them

vars == <<dates, prices, prophet_config, PROPHET_AVAILABLE, entropy, rng,
          prophetFailAt, response, applyCalls, earlier, deployment, inflight,
          catalog>>

engineVars == <<dates, prices, prophet_config, PROPHET_AVAILABLE, entropy>>

\* Bounds of the model
MaxPeriods == 24

MaxEntropy == 0

MaxIds == 6

MaxSince == 2

\* Baseline lengths and first months the data file was generated with.
\* The data files the process may start from: (first month, periods) the
\* generator was run with.
BaselineChoices ==
    {[start |-> [year |-> 2020, month |-> 1], periods |-> 10],
     [start |-> [year |-> 2022, month |-> 3], periods |-> MaxPeriods]}

\* When Prophet raises: not at all, at the first region, after two regions.
FailPoints == {0, 1, 3}

\* hash salt and numpy's initial seed, both taken from the process entropy
HashSalt(en) == en * 3 + 1

InitialSeed(en) == 1000 + 17 * en

NoEarlier == [none |-> TRUE]

NoResponse == [route |-> "none", status |-> 0]

\* One worker, no request in progress on the data file
NoDeployment == [none |-> TRUE]

\* No call running in a thread
NoCalls == <<>>

\* self.prophet_config of __init__
DefaultProphetConfig ==
    [yearly_seasonality |-> TRUE, weekly_seasonality |-> FALSE, daily_seasonality |-> FALSE,
     seasonality_mode |-> "multiplicative", changepoint_prior_scale |-> 50,
     seasonality_prior_scale |-> 10000, interval_width |-> 950]

Engine == EngineView(dates, prices, prophet_config, PROPHET_AVAILABLE, HashSalt(entropy), rng, prophetFailAt)

\* Module import and ScenarioEngine(DATA_PATH): the data file is one the
\* generator wrote.
Init ==
    /\ \E b \in BaselineChoices :
          LET data == generate_all_data(b.start, b.periods)
          IN dates = data.dates /\ prices = data.prices
    /\ prophet_config = DefaultProphetConfig
    /\ PROPHET_AVAILABLE \in BOOLEAN
    /\ entropy \in 0..MaxEntropy
    /\ rng = Seeded(InitialSeed(entropy))
    /\ prophetFailAt = 0
    /\ response = NoResponse
    /\ applyCalls = 0
    /\ earlier = NoEarlier
    /\ deployment = NoDeployment
    /\ inflight = NoCalls
    /\ catalog = CatalogParameters

(***************************************************************************)
(* Requests                                                                *)
(***************************************************************************)
NoParams == <<>>

\* (scenario id, custom_params) pairs sent to the simulate route: every
\* catalog id and two unknown ids without overrides, and overrides of known
\* and unknown keys.
SimulateInputs ==
    {<<id, NoParams>> : id \in 0..17}
    \cup {<<6, [supply_reduction |-> [num |-> 300], compliance_cost |-> [num |-> 200]]>>,
          <<6, [duration_months |-> [num |-> 6], mars |-> [num |-> 1]]>>,
          <<8, [region_affected |-> [str |-> "us"]]>>,
          <<8, [region_affected |-> [str |-> "mars"], duration_months |-> [num |-> 2]]>>,
          <<9, [duration_months |-> [num |-> 0]]>>,
          <<1, [demand_growth_rate |-> [num |-> 33]]>>}

\* The requests of SimulateInputs sent while the other routes are in use.
ServedInputs ==
    {<<0, NoParams>>, <<6, NoParams>>, <<1, NoParams>>,
     <<6, [supply_reduction |-> [num |-> 300], compliance_cost |-> [num |-> 200]]>>,
     <<6, [duration_months |-> [num |-> 6], mars |-> [num |-> 1]]>>,
     <<9, [duration_months |-> [num |-> 0]]>>}

\* What simulate_scenario returns once engine.apply_scenario has ended as
\* `call`: the result, 404 for a ValueError, 500 for another exception
SimulateResponse(request, call) ==
    IF call.ok
    THEN [route |-> "simulate", request |-> request, status |-> 200,
          body |-> call.result]
    ELSE IF call.error = "ValueError"
    THEN [route |-> "simulate", request |-> request, status |-> 404,
          error |-> call.error]
    ELSE [route |-> "simulate", request |-> request, status |-> 500,
          error |-> call.error]

\* app.py simulate_scenario
Simulate(scenario_id, custom_params) ==
    \E call \in {apply_scenario(scenario_id, custom_params, Engine)},
       request \in {[scenario_id |-> scenario_id, custom_params |-> custom_params]} :
       /\ response' = SimulateResponse(request, call)
       /\ rng' = call.rng
       /\ applyCalls' = 1
       /\ PROPHET_AVAILABLE' =
            IF call.ok
            THEN AvailableAfterForecast(PROPHET_AVAILABLE, call.result.forecast.model)
            ELSE PROPHET_AVAILABLE
       /\ prices' = BaselineAfterCall(prices, call)
       /\ catalog' = CatalogAfterCall(catalog, scenario_id, custom_params)
       /\ UNCHANGED <<dates, prophet_config, entropy, prophetFailAt>>

\* scenario_ids lists sent to the compare route
RECURSIVE FirstIds(_)
FirstIds(n) == IF n = 0 THEN <<>> ELSE Append(FirstIds(n - 1), n)

CompareInputs == {FirstIds(n) : n \in {0, 1, 5, MaxIds}}

\* app.py compare_scenarios
Compare(is_json, scenario_ids) ==
    LET request == [is_json |-> is_json, scenario_ids |-> scenario_ids]
    IN /\ response' =
            IF ~is_json
            THEN [route |-> "compare", request |-> request, status |-> 400,
                  error |-> "Request must be JSON"]
            ELSE IF scenario_ids = <<>>
            THEN [route |-> "compare", request |-> request, status |-> 400,
                  error |-> "scenario_ids is required"]
            ELSE IF Len(scenario_ids) > 5
            THEN [route |-> "compare", request |-> request, status |-> 400,
                  error |-> "Maximum 5 scenarios for comparison"]
            ELSE IF "compare_scenarios" \notin ScenarioEngineMethods
            THEN \* engine.compare_scenarios raises AttributeError
                 [route |-> "compare", request |-> request, status |-> 500,
                  error |-> "AttributeError"]
            ELSE [route |-> "compare", request |-> request, status |-> 200]
       /\ applyCalls' = 0
       /\ UNCHANGED <<engineVars, rng, prophetFailAt>>

\* (scenario_id, parameter, values) sent to the sensitivity route; 0, ""
\* and <<>> stand for a missing or empty field.
SensitivityInputs ==
    {[scenario_id |-> 6, parameter |-> "supply_reduction", values |-> <<100, 200, 300>>],
     [scenario_id |-> 6, parameter |-> "supply_reduction", values |-> <<>>]}

\* app.py sensitivity_analysis
Sensitivity(is_json, req) ==
    LET request == [is_json |-> is_json, scenario_id |-> req.scenario_id,
                    parameter |-> req.parameter, values |-> req.values]
    IN /\ response' =
            IF ~is_json
            THEN [route |-> "sensitivity", request |-> request, status |-> 400,
                  error |-> "Request must be JSON"]
            ELSE IF req.scenario_id = 0 \/ req.parameter = "" \/ req.values = <<>>
            THEN [route |-> "sensitivity", request |-> request, status |-> 400,
                  error |-> "scenario_id, parameter, and values are required"]
            ELSE IF "sensitivity_analysis" \notin ScenarioEngineMethods
            THEN \* engine.sensitivity_analysis raises AttributeError
                 [route |-> "sensitivity", request |-> request, status |-> 500,
                  error |-> "AttributeError"]
            ELSE [route |-> "sensitivity", request |-> request, status |-> 200]
       /\ applyCalls' = 0
       /\ UNCHANGED <<engineVars, rng, prophetFailAt>>

\* The Prophet installation starts or stops raising ("except Exception" of
\* _generate_forecast is what meets it).
ProphetEnvChange(failAt) ==
    /\ PROPHET_AVAILABLE
    /\ failAt # prophetFailAt
    /\ prophetFailAt' = failAt
    /\ UNCHANGED <<engineVars, rng, response, applyCalls>>

Next ==
    \/ \E in \in ServedInputs : Simulate(in[1], in[2]) /\ UNCHANGED <<earlier, deployment, inflight>>
    \/ \E ids \in CompareInputs : Compare(TRUE, ids) /\ UNCHANGED <<earlier, deployment, inflight, catalog>>
    \/ Compare(FALSE, <<>>) /\ UNCHANGED <<earlier, deployment, inflight, catalog>>
    \/ \E req \in SensitivityInputs : Sensitivity(TRUE, req) /\ UNCHANGED <<earlier, deployment, inflight, catalog>>
    \/ Sensitivity(FALSE, [scenario_id |-> 0, parameter |-> "", values |-> <<>>]) /\ UNCHANGED <<earlier, deployment, inflight, catalog>>
    \/ \E failAt \in FailPoints : ProphetEnvChange(failAt) /\ UNCHANGED <<earlier, deployment, inflight, catalog>>

\* The service: requests of the three POST routes in any order.
Spec == Init /\ [][Next]_vars

NextCatalog == \E in \in SimulateInputs : Simulate(in[1], in[2]) /\ UNCHANGED <<earlier, deployment, inflight>>

\* The simulate route alone, over the whole catalog.
SpecCatalog == Init /\ [][NextCatalog]_vars

(***************************************************************************)
(* The simulate route with an earlier successful call remembered: its      *)
(* request and what it returned, the number of calls served since, and     *)
(* whether one of those had another request.                               *)
(***************************************************************************)
RepeatInputs ==
    {<<6, NoParams>>, <<1, NoParams>>, <<6, [duration_months |-> [num |-> 6], mars |-> [num |-> 1]]>>,
     <<6, [supply_reduction |-> [num |-> 300], compliance_cost |-> [num |-> 200]]>>}

\* app.py simulate_scenario; keep: this call becomes the remembered one.
SimulateAgain(scenario_id, custom_params, keep) ==
    /\ Simulate(scenario_id, custom_params)
    /\ IF keep \/ earlier = NoEarlier THEN TRUE ELSE earlier.since < MaxSince
    /\ earlier' =
         IF keep /\ response'.status = 200
         THEN [request |-> response'.request,
               simulated_prices |-> response'.body.simulated_prices,
               forecast |-> response'.body.forecast,
               since |-> 0, other |-> FALSE]
         ELSE IF earlier = NoEarlier THEN earlier
         ELSE [earlier EXCEPT !.since = Min(@ + 1, MaxSince),
                              !.other = @ \/ response'.request # earlier.request]
    /\ UNCHANGED <<deployment, inflight>>

NextRepeat ==
    \/ \E in \in RepeatInputs : SimulateAgain(in[1], in[2], TRUE)
    \/ \E in \in RepeatInputs : SimulateAgain(in[1], in[2], FALSE)

SpecRepeat == Init /\ [][NextRepeat]_vars

(***************************************************************************)
(* The simulate route while Prophet fails and recovers, with an earlier    *)
(* successful call remembered.                                             *)
(***************************************************************************)
RecoverInputs == {<<6, NoParams>>, <<1, NoParams>>}

NextRecover ==
    \/ \E in \in RecoverInputs : SimulateAgain(in[1], in[2], TRUE)
    \/ \E in \in RecoverInputs : SimulateAgain(in[1], in[2], FALSE)
    \/ \E failAt \in FailPoints : ProphetEnvChange(failAt) /\ UNCHANGED <<earlier, deployment, inflight, catalog>>

SpecRecover == Init /\ [][NextRecover]_vars

(***************************************************************************)
(* _generate_forecast on its own: the series, the dates and the condition  *)
(* of Prophet are drawn at the start, and the function is applied to them. *)
(* prices holds the series handed over as `simulated`.                     *)
(***************************************************************************)
SeriesLengths == {1, 2, 7, 13, MaxPeriods}

SeriesShapes == {"flat", "rising", "wave"}

\* The last historical date, as YYYYMMDD
LastDates == {20240229, 20230131, 20211215}

\* n monthly dates, the last one being last
DatesEndingAt(last, n) ==
    [i \in 1..n |-> strftime(relativedelta_months(strptime(last), i - n))]

\* A series of n prices in ten-thousandths
Series(shape, r, n) ==
    LET level == 6000 + 500 * (CHOOSE j \in DOMAIN regions : regions[j] = r)
    IN [i \in 1..n |->
          CASE shape = "flat" -> level
            [] shape = "rising" -> level + 25 * i
            [] OTHER -> level + 100 * ((i % 4) - 1) + 7 * (i % 3)]

InitForecast ==
    /\ \E n \in SeriesLengths, shape \in SeriesShapes, last \in LastDates :
          /\ dates = DatesEndingAt(last, n)
          /\ prices = [r \in RegionSet |-> Series(shape, r, n)]
    /\ prophet_config = DefaultProphetConfig
    /\ PROPHET_AVAILABLE \in BOOLEAN
    /\ entropy \in 0..MaxEntropy
    /\ rng = Seeded(InitialSeed(entropy))
    /\ prophetFailAt \in (IF PROPHET_AVAILABLE THEN FailPoints ELSE {0})
    /\ response = NoResponse
    /\ applyCalls = 0
    /\ earlier = NoEarlier
    /\ deployment = NoDeployment
    /\ inflight = NoCalls
    /\ catalog = CatalogParameters

ForecastParams ==
    {[duration_months |-> [num |-> 6]], [duration_months |-> [num |-> 36]]}

\* self._generate_forecast(simulated, params), applied once
ForecastCall(params) ==
    /\ response = NoResponse
    /\ \E f \in {_generate_forecast(prices, params, ForecastMonths, dates, prophet_config,
                                     rng, PROPHET_AVAILABLE, prophetFailAt)} :
       /\ response' =
            IF f.ok
            THEN [route |-> "forecast", request |-> params, status |-> 200,
                  body |-> [forecast |-> f.forecast]]
            ELSE [route |-> "forecast", request |-> params, status |-> 500,
                  error |-> f.error]
       /\ rng' = IF f.ok THEN f.rng ELSE rng
       /\ applyCalls' = 0
       /\ UNCHANGED <<engineVars, prophetFailAt, earlier, deployment, inflight, catalog>>

NextForecast == \E params \in ForecastParams : ForecastCall(params)

SpecForecast == InitForecast /\ [][NextForecast]_vars

(***************************************************************************)
(* The service as the Dockerfile starts it: gunicorn with two worker        *)
(* processes.  Each imports app.py and holds its own engine; both use the   *)
(* one data file.  dates, prices and rng are those of the first worker,     *)
(* deployment holds the file, the second worker and the progress of every   *)
(* regenerate request.  A worker serves one request at a time.              *)
(***************************************************************************)
Workers == {1, 2}

\* The data file between open(filepath, 'w') and the end of json.dump
PartialFile == [partial |-> TRUE]

\* The dataset the generator writes for (start_date, periods)
DataOf(b) == generate_all_data(b.start, b.periods)

InitWorkers ==
    /\ \E b \in BaselineChoices :
          /\ dates = DataOf(b).dates
          /\ prices = DataOf(b).prices
          /\ deployment = [file |-> b,
                           peer |-> [dates |-> DataOf(b).dates, prices |-> DataOf(b).prices,
                                     rng |-> Seeded(InitialSeed(1))],
                           stage |-> [w \in Workers |-> "idle"],
                           writing |-> [w \in Workers |-> b],
                           current |-> b]
    /\ prophet_config = DefaultProphetConfig
    /\ PROPHET_AVAILABLE \in BOOLEAN
    /\ entropy = 0
    /\ rng = Seeded(InitialSeed(entropy))
    /\ prophetFailAt = 0
    /\ response = NoResponse
    /\ applyCalls = 0
    /\ earlier = NoEarlier
    /\ inflight = NoCalls
    /\ catalog = CatalogParameters

\* The engine of the second worker
PeerEngine ==
    EngineView(deployment.peer.dates, deployment.peer.prices, DefaultProphetConfig,
               PROPHET_AVAILABLE, HashSalt(entropy + 1), deployment.peer.rng, prophetFailAt)

\* simulate_scenario served by worker w
WorkerSimulate(w, scenario_id, custom_params) ==
    /\ deployment.stage[w] = "idle"
    /\ IF w = 1
       THEN Simulate(scenario_id, custom_params) /\ UNCHANGED deployment
       ELSE \E call \in {apply_scenario(scenario_id, custom_params, PeerEngine)} :
               /\ response' = SimulateResponse([scenario_id |-> scenario_id,
                                                custom_params |-> custom_params], call)
               /\ deployment' = [deployment EXCEPT !.peer.rng = call.rng]
               /\ applyCalls' = 1
               /\ UNCHANGED <<engineVars, rng, prophetFailAt, catalog>>
    /\ UNCHANGED <<earlier, inflight>>

\* app.py get_baseline_data served by worker w: the file is read anew
BaselineRead(w) ==
    /\ deployment.stage[w] = "idle"
    /\ response' = IF deployment.file = PartialFile
                   THEN [route |-> "baseline", status |-> 500, error |-> "Error loading data"]
                   ELSE [route |-> "baseline", status |-> 200, body |-> DataOf(deployment.file)]
    /\ applyCalls' = 0
    /\ UNCHANGED <<engineVars, rng, prophetFailAt, earlier, deployment, inflight, catalog>>

\* regenerate_data on worker w up to open(filepath, 'w') of save_data: the
\* data is generated, which seeds the generator of the process, and the
\* file is truncated.
RegenerateOpen(w, b) ==
    /\ deployment.stage[w] = "idle"
    /\ deployment' = [deployment EXCEPT
                        !.file = PartialFile,
                        !.stage[w] = "writing",
                        !.writing[w] = b,
                        !.peer.rng = IF w = 2 /\ b.periods > 1
                                     THEN [seed |-> 42, n |-> b.periods - 1] ELSE @]
    /\ rng' = IF w = 1 /\ b.periods > 1 THEN [seed |-> 42, n |-> b.periods - 1] ELSE rng
    /\ UNCHANGED <<engineVars, prophetFailAt, response, applyCalls, earlier, inflight, catalog>>

\* json.dump has written everything and the with block closes the file.
\* While the other worker writes the same file the content is either's or
\* a mixture of both.
RegenerateClose(w) ==
    /\ deployment.stage[w] = "writing"
    /\ \E content \in (IF \E v \in Workers \ {w} : deployment.stage[v] = "writing"
                        THEN {deployment.writing[w], PartialFile}
                        ELSE {deployment.writing[w]}) :
          deployment' = [deployment EXCEPT !.file = content, !.stage[w] = "written"]
    /\ UNCHANGED <<engineVars, rng, prophetFailAt, response, applyCalls, earlier, inflight, catalog>>

\* engine = ScenarioEngine(DATA_PATH) and the answer of regenerate_data
RegenerateLoad(w) ==
    /\ deployment.stage[w] = "written"
    /\ IF deployment.file = PartialFile
       THEN /\ response' = [route |-> "regenerate", status |-> 500,
                            error |-> "Regeneration error"]
            /\ deployment' = [deployment EXCEPT !.stage[w] = "idle"]
            /\ UNCHANGED <<dates, prices>>
       ELSE /\ response' = [route |-> "regenerate", status |-> 200,
                            request |-> deployment.writing[w]]
            /\ deployment' = [deployment EXCEPT
                                !.stage[w] = "idle",
                                !.current = deployment.writing[w],
                                !.peer.dates = IF w = 2 THEN DataOf(deployment.file).dates ELSE @,
                                !.peer.prices = IF w = 2 THEN DataOf(deployment.file).prices ELSE @]
            /\ dates' = IF w = 1 THEN DataOf(deployment.file).dates ELSE dates
            /\ prices' = IF w = 1 THEN DataOf(deployment.file).prices ELSE prices
    /\ applyCalls' = 0
    /\ UNCHANGED <<prophet_config, PROPHET_AVAILABLE, entropy, rng, prophetFailAt, earlier,
                   inflight, catalog>>

NextWorkers ==
    \/ \E w \in Workers : WorkerSimulate(w, 6, NoParams)
    \/ \E w \in Workers : BaselineRead(w)
    \/ \E w \in Workers, b \in BaselineChoices : RegenerateOpen(w, b)
    \/ \E w \in Workers : RegenerateClose(w)
    \/ \E w \in Workers : RegenerateLoad(w)

SpecWorkers == InitWorkers /\ [][NextWorkers]_vars

(***************************************************************************)
(* Two engine instances of one process, each running one apply_scenario    *)
(* call in a thread of its own over the same baseline.  np.random.seed and *)
(* np.random.normal act on numpy's global generator, rng, which the        *)
(* process has once.  A call advances by the seeding, then the loop of one *)
(* region at a time, then metrics and forecast.                            *)
(***************************************************************************)
Threads == {1, 2}

ParallelInputs == {<<6, NoParams>>, <<1, NoParams>>}

IdleCall == [pc |-> "idle"]

InitParallel ==
    /\ \E b \in BaselineChoices :
          dates = DataOf(b).dates /\ prices = DataOf(b).prices
    /\ prophet_config = DefaultProphetConfig
    /\ PROPHET_AVAILABLE \in BOOLEAN
    /\ entropy = 0
    /\ rng = Seeded(InitialSeed(entropy))
    /\ prophetFailAt = 0
    /\ response = NoResponse
    /\ applyCalls = 0
    /\ earlier = NoEarlier
    /\ deployment = NoDeployment
    /\ inflight = [t \in Threads |-> IdleCall]
    /\ catalog = CatalogParameters

\* apply_scenario of thread t up to np.random.seed(seed) of _apply_effects
CallStart(t, scenario_id, custom_params) ==
    /\ inflight[t].pc = "idle"
    /\ get_scenario(scenario_id) # None
    /\ \E params \in {MergeParams(get_scenario(scenario_id).parameters, custom_params)} :
        \E price_effects \in {_calculate_price_effects(get_scenario(scenario_id), params)} :
          /\ price_effects.ok
          /\ rng' = Seeded(NoiseSeed(params, HashSalt(entropy)))
          /\ inflight' = [inflight EXCEPT ![t] =
                            [pc |-> "regions",
                             request |-> [scenario_id |-> scenario_id,
                                          custom_params |-> custom_params],
                             params |-> params, effects |-> price_effects.effects,
                             j |-> 1, simulated |-> <<>>]]
    /\ UNCHANGED <<engineVars, prophetFailAt, response, applyCalls, earlier, deployment,
                   catalog>>

\* One pass of "for region in self.regions" of _apply_effects in thread t:
\* the draws come from the generator as it stands.
CallRegion(t) ==
    /\ inflight[t].pc = "regions"
    /\ LET present == PresentRegions(prices)
           r == present[inflight[t].j]
           drawn == Max(Len(dates) - StartIndex(Len(dates)), 0)
       IN /\ inflight' = [inflight EXCEPT ![t] =
                [@ EXCEPT !.simulated =
                              @ @@ (r :> SimulatedRegion(prices[r], Get(inflight[t].effects, r, 0),
                                                          NumParam(inflight[t].params,
                                                                   "duration_months", 12),
                                                          Len(dates), rng.seed, rng.n)),
                          !.j = @ + 1,
                          !.pc = IF inflight[t].j = Len(present) THEN "forecast" ELSE "regions"]]
          /\ rng' = [seed |-> rng.seed, n |-> rng.n + drawn]
    /\ UNCHANGED <<engineVars, prophetFailAt, response, applyCalls, earlier, deployment,
                   catalog>>

\* _calculate_metrics, _generate_forecast and the return of apply_scenario
\* in thread t
CallForecast(t) ==
    /\ inflight[t].pc = "forecast"
    /\ \E f \in {_generate_forecast(inflight[t].simulated, inflight[t].params, ForecastMonths,
                                     dates, prophet_config, rng, PROPHET_AVAILABLE,
                                     prophetFailAt)} :
          /\ f.ok
          /\ rng' = f.rng
          /\ inflight' = [inflight EXCEPT ![t] =
                            [pc |-> "done", request |-> inflight[t].request,
                             simulated_prices |-> inflight[t].simulated,
                             metrics |-> _calculate_metrics(inflight[t].simulated, prices),
                             forecast |-> f.forecast]]
    /\ UNCHANGED <<engineVars, prophetFailAt, response, applyCalls, earlier, deployment,
                   catalog>>

NextParallel ==
    \/ \E t \in Threads, in \in ParallelInputs : CallStart(t, in[1], in[2])
    \/ \E t \in Threads : CallRegion(t)
    \/ \E t \in Threads : CallForecast(t)

SpecParallel == InitParallel /\ [][NextParallel]_vars

(***************************************************************************)
(* The simulate route with the request body as the client sent it: absent, *)
(* a JSON object, or JSON of another shape.                                *)
(***************************************************************************)
RequestBodies ==
    {[kind |-> "none"],
     [kind |-> "object", data |-> <<>>],
     [kind |-> "object", data |-> [custom_params |-> [duration_months |-> [num |-> 0]]]],
     [kind |-> "object",
      data |-> [custom_params |-> [supply_reduction |-> [num |-> 300],
                                   compliance_cost |-> [num |-> 200]]]],
     [kind |-> "object",
      data |-> [custom_params |-> [duration_months |-> [num |-> 6], mars |-> [num |-> 1]]]],
     [kind |-> "array"],
     [kind |-> "null"]}

BodyIds == {0, 1, 6, 8, 9, 16}

\* app.py simulate_scenario from its first line.  request.get_json() of an
\* array or of null has no .get: the AttributeError of line 81 is raised
\* before the try block and the framework answers 500 with its own page.
SimulateRequest(scenario_id, body) ==
    IF body.kind \in {"array", "null"}
    THEN /\ response' = [route |-> "simulate", status |-> 500,
                         request |-> [scenario_id |-> scenario_id, body |-> body.kind],
                         error |-> "Internal Server Error"]
         /\ applyCalls' = 0
         /\ UNCHANGED <<engineVars, rng, prophetFailAt, catalog>>
    ELSE Simulate(scenario_id,
                  IF body.kind = "object" THEN Get(body.data, "custom_params", NoParams)
                  ELSE NoParams)

NextBodies ==
    \E scenario_id \in BodyIds, body \in RequestBodies :
        SimulateRequest(scenario_id, body) /\ UNCHANGED <<earlier, deployment, inflight>>

SpecBodies == Init /\ [][NextBodies]_vars

(***************************************************************************)
(* _calculate_price_effects on its own, applied to scenarios whose logic   *)
(* tag is the catalog's, is missing, or is one no handler is registered    *)
(* for.                                                                    *)
(***************************************************************************)
\* "" stands for a scenario dict without the key 'logic'; "keep" for the
\* tag the catalog gives the scenario
LogicTags == {"keep", "", "default", "carbon_tax", "Demand_Growth"}

\* The catalog scenario id with its logic tag replaced
Retagged(id, tag) ==
    IF tag = "keep" THEN SCENARIOS[id]
    ELSE IF tag = "" THEN [k \in DOMAIN SCENARIOS[id] \ {"logic"} |-> SCENARIOS[id][k]]
    ELSE [SCENARIOS[id] EXCEPT !.logic = tag]

\* self._calculate_price_effects(scenario, params), applied once
EffectsCall(id, tag, withParams) ==
    /\ response = NoResponse
    /\ \E call \in {_calculate_price_effects(Retagged(id, tag),
                                              IF withParams THEN SCENARIOS[id].parameters
                                              ELSE NoParams)} :
          response' = IF call.ok
                      THEN [route |-> "price_effects", status |-> 200,
                            request |-> [id |-> id, tag |-> tag, withParams |-> withParams],
                            body |-> call.effects]
                      ELSE [route |-> "price_effects", status |-> 500,
                            request |-> [id |-> id, tag |-> tag, withParams |-> withParams],
                            error |-> call.error]
    /\ applyCalls' = 0
    /\ UNCHANGED <<engineVars, rng, prophetFailAt, earlier, deployment, inflight, catalog>>

NextEffects ==
    \E id \in DOMAIN SCENARIOS, tag \in LogicTags, withParams \in BOOLEAN :
        EffectsCall(id, tag, withParams)

SpecEffects == Init /\ [][NextEffects]_vars

(***************************************************************************)
(* The engine of one process under its operations: apply_scenario (the     *)
(* simulate route), get_forecast_components, update_prophet_config and     *)
(* the regenerate route, which replaces the engine.                        *)
(***************************************************************************)
\* Keyword arguments handed to update_prophet_config
ConfigUpdates ==
    {<<>>,
     [interval_width |-> 800],
     [changepoint_prior_scale |-> 100, n_changepoints |-> 25],
     [mcmc_samples |-> 300]}

ConfigInputs == {<<6, NoParams>>, <<0, NoParams>>}

\* engine.update_prophet_config(**kwargs)
UpdateConfig(kwargs) ==
    /\ prophet_config' = update_prophet_config(prophet_config, kwargs)
    /\ response' = [route |-> "update_prophet_config", request |-> kwargs, status |-> 200,
                    warnings |-> UpdateWarnings(prophet_config, kwargs)]
    /\ applyCalls' = 0
    /\ UNCHANGED <<dates, prices, PROPHET_AVAILABLE, entropy, rng, prophetFailAt>>

\* engine.get_forecast_components(scenario_id, custom_params)
GetForecastComponents(scenario_id, custom_params) ==
    \E call \in {get_forecast_components(scenario_id, custom_params, Engine)},
       request \in {[scenario_id |-> scenario_id, custom_params |-> custom_params]} :
       /\ response' =
            IF call.ok
            THEN [route |-> "get_forecast_components", request |-> request, status |-> 200,
                  body |-> call.result]
            ELSE [route |-> "get_forecast_components", request |-> request, status |-> 500,
                  error |-> call.error]
       /\ rng' = call.rng
       /\ applyCalls' = IF PROPHET_AVAILABLE THEN 1 ELSE 0
       /\ UNCHANGED <<engineVars, prophetFailAt>>

\* app.py regenerate_data: the generator writes the file and the engine is
\* built anew from it.
Regenerate(b) ==
    /\ LET data == generate_all_data(b.start, b.periods)
       IN dates' = data.dates /\ prices' = data.prices
    /\ prophet_config' = DefaultProphetConfig
    /\ rng' = IF b.periods > 1 THEN [seed |-> 42, n |-> b.periods - 1] ELSE rng
    /\ response' = [route |-> "regenerate", request |-> b, status |-> 200]
    /\ applyCalls' = 0
    /\ UNCHANGED <<PROPHET_AVAILABLE, entropy, prophetFailAt>>

NextConfig ==
    \/ \E in \in ConfigInputs : Simulate(in[1], in[2]) /\ UNCHANGED <<earlier, deployment, inflight>>
    \/ \E in \in ConfigInputs : GetForecastComponents(in[1], in[2]) /\ UNCHANGED <<earlier, deployment, inflight, catalog>>
    \/ \E kwargs \in ConfigUpdates : UpdateConfig(kwargs) /\ UNCHANGED <<earlier, deployment, inflight, catalog>>
    \/ \E b \in BaselineChoices : Regenerate(b) /\ UNCHANGED <<earlier, deployment, inflight, catalog>>

SpecConfig == Init /\ [][NextConfig]_vars

(***************************************************************************)
(* The simulate route of an engine whose data file lacks some of the       *)
(* regions: ScenarioEngine(DATA_PATH) loads the file that is there.        *)
(***************************************************************************)
\* The regions the data file lacks
MissingChoices == {{}, {"us_ech"}, {"eu_ech", "china_ech"}, RegionSet}

InitPartial ==
    /\ \E b \in BaselineChoices, missing \in MissingChoices :
          LET data == generate_all_data(b.start, b.periods)
          IN /\ dates = data.dates
             /\ prices = [r \in DOMAIN data.prices \ missing |-> data.prices[r]]
    /\ prophet_config = DefaultProphetConfig
    /\ PROPHET_AVAILABLE \in BOOLEAN
    /\ entropy \in 0..MaxEntropy
    /\ rng = Seeded(InitialSeed(entropy))
    /\ prophetFailAt = 0
    /\ response = NoResponse
    /\ applyCalls = 0
    /\ earlier = NoEarlier
    /\ deployment = NoDeployment
    /\ inflight = NoCalls
    /\ catalog = CatalogParameters

\* Requests that succeed on a baseline with all four regions, and an unknown id
PartialInputs ==
    {<<0, NoParams>>, <<6, NoParams>>, <<1, NoParams>>, <<8, NoParams>>, <<16, NoParams>>,
     <<6, [supply_reduction |-> [num |-> 300], compliance_cost |-> [num |-> 200]]>>,
     <<6, [duration_months |-> [num |-> 6], mars |-> [num |-> 1]]>>,
     <<8, [region_affected |-> [str |-> "us"]]>>}

NextPartial == \E in \in PartialInputs : Simulate(in[1], in[2]) /\ UNCHANGED <<earlier, deployment, inflight>>

SpecPartial == InitPartial /\ [][NextPartial]_vars

(***************************************************************************)
(* The time-phase envelope of _apply_effects on its own: the number of      *)
(* periods is drawn at the start, and the envelope of one effect and one    *)
(* duration is computed over them.                                          *)
(***************************************************************************)
PeriodCounts == {1, 5, 10, 13, MaxPeriods}

\* terminal effects, in millionths
PhaseEffects == {-200000, -37500, 0, 9000, 150000, 350000}

PhaseDurations == {0, 2, 3, 6, 12, 18, 36}

InitPhase ==
    /\ \E n \in PeriodCounts :
          /\ dates = DatesEndingAt(20240229, n)
          /\ prices = [r \in RegionSet |-> Series("flat", r, n)]
    /\ prophet_config = DefaultProphetConfig
    /\ PROPHET_AVAILABLE = FALSE
    /\ entropy = 0
    /\ rng = Seeded(InitialSeed(entropy))
    /\ prophetFailAt = 0
    /\ response = NoResponse
    /\ applyCalls = 0
    /\ earlier = NoEarlier
    /\ deployment = NoDeployment
    /\ inflight = NoCalls
    /\ catalog = CatalogParameters

\* The envelope part of the loop of _apply_effects, applied once
PhaseCall(effect, duration) ==
    /\ response = NoResponse
    /\ response' = IF EnvelopeRaises(duration, Len(dates))
                   THEN [route |-> "phase", status |-> 500,
                         request |-> [effect |-> effect, duration |-> duration],
                         error |-> "ZeroDivisionError"]
                   ELSE [route |-> "phase", status |-> 200,
                         request |-> [effect |-> effect, duration |-> duration],
                         body |-> [start |-> StartIndex(Len(dates)),
                                   envelope |-> PhaseEnvelope(effect, duration, Len(dates))]]
    /\ applyCalls' = 0
    /\ UNCHANGED <<engineVars, rng, prophetFailAt, earlier, deployment, inflight, catalog>>

NextPhase == \E effect \in PhaseEffects, duration \in PhaseDurations : PhaseCall(effect, duration)

SpecPhase == InitPhase /\ [][NextPhase]_vars

(***************************************************************************)
(* The effect calculation of every catalog scenario over a range of        *)
(* duration_months overrides, alone and next to other overrides.           *)
(***************************************************************************)
DurationChoices == {0, 1, 3, 6, 8, 9, 12, 17, 18, 24, 30, 36}

\* overrides sent next to duration_months
DurationCompanions ==
    {NoParams, [region_affected |-> [str |-> "us"]], [region_affected |-> [str |-> "asia"]],
     [supply_reduction |-> [num |-> 300], price_discount |-> [num |-> 50]]}

\* apply_scenario up to the return of self._calculate_price_effects, for a
\* catalog scenario and overrides that include duration_months
DurationCall(id, companions, duration) ==
    /\ response = NoResponse
    /\ \E custom_params \in {companions @@ [duration_months |-> [num |-> duration]]} :
        \E call \in {_calculate_price_effects(
                         SCENARIOS[id], MergeParams(SCENARIOS[id].parameters, custom_params))} :
          response' = IF call.ok
                      THEN [route |-> "duration", status |-> 200,
                            request |-> [scenario_id |-> id, custom_params |-> custom_params],
                            body |-> call.effects]
                      ELSE [route |-> "duration", status |-> 500,
                            request |-> [scenario_id |-> id, custom_params |-> custom_params],
                            error |-> call.error]
    /\ applyCalls' = 0
    /\ UNCHANGED <<engineVars, rng, prophetFailAt, earlier, deployment, inflight, catalog>>

NextDuration ==
    \E id \in DOMAIN SCENARIOS, companions \in DurationCompanions, duration \in DurationChoices :
        DurationCall(id, companions, duration)

SpecDuration == Init /\ [][NextDuration]_vars

(***************************************************************************)
(* The scenario-effect regressor of _generate_prophet_forecast on its own: *)
(* the number of periods is drawn at the start, and the regressor columns  *)
(* of the training frame and of the future frame are built for one         *)
(* duration.                                                               *)
(***************************************************************************)
RegressorDurations == 0..36

\* The part of _generate_prophet_forecast that decides on the regressor and
\* builds df['scenario_effect'] and future['scenario_effect']
RegressorCall(duration) ==
    /\ response = NoResponse
    /\ \E params \in {[duration_months |-> [num |-> duration]]} :
          response' =
            [route |-> "regressor", status |-> 200, request |-> [duration |-> duration],
             body |-> IF scenario_ongoing(params, Len(dates))
                      THEN [built |-> TRUE,
                            df |-> _create_scenario_regressor(Len(dates), params, Len(dates)),
                            future |-> _extend_scenario_regressor(params, Len(dates),
                                                                  ForecastMonths)]
                      ELSE [built |-> FALSE]]
    /\ applyCalls' = 0
    /\ UNCHANGED <<engineVars, rng, prophetFailAt, earlier, deployment, inflight, catalog>>

NextRegressor == \E duration \in RegressorDurations : RegressorCall(duration)

SpecRegressor == InitPhase /\ [][NextRegressor]_vars

(***************************************************************************)
(* The loop of _generate_simple_forecast on its own, for one region of the *)
(* series handed over: every step's carried value and reported point.      *)
(***************************************************************************)
\* "for i in range(months)" of _generate_simple_forecast for region r
FallbackLoopCall(r) ==
    /\ response = NoResponse
    /\ Len(prices[r]) > 0
    /\ \E ctx \in {SimpleContext(prices[r])} :
          response' = [route |-> "fallback_loop", status |-> 200, request |-> [region |-> r],
                       body |-> [ctx |-> ctx,
                                 last_price |-> 10 * prices[r][Len(prices[r])],
                                 steps |-> SimpleSteps(ctx, 0, ForecastMonths,
                                                       10 * prices[r][Len(prices[r])], <<>>)]]
    /\ applyCalls' = 0
    /\ UNCHANGED <<engineVars, rng, prophetFailAt, earlier, deployment, inflight, catalog>>

NextFallbackLoop == \E r \in RegionSet : FallbackLoopCall(r)

SpecFallbackLoop == InitForecast /\ [][NextFallbackLoop]_vars

(***************************************************************************)
(* The simulate route with overrides that repeat the catalog's defaults    *)
(* or name keys the scenario does not have.                                *)
(***************************************************************************)
\* custom_params for scenario id: none, an unknown key, one default repeated
\* next to an unknown key, every default repeated
RepeatedDefaults(id) ==
    {NoParams,
     [mars |-> [num |-> 1]],
     [duration_months |-> SCENARIOS[id].parameters.duration_months,
      region_affected |-> [str |-> "mars"]]
         @@ (IF "region_affected" \in DOMAIN SCENARIOS[id].parameters
             THEN [region_affected |-> SCENARIOS[id].parameters.region_affected]
             ELSE <<>>),
     SCENARIOS[id].parameters}

\* The first request a fresh process serves
NextDefaults ==
    \E id \in DOMAIN SCENARIOS : \E custom_params \in RepeatedDefaults(id) :
        /\ response = NoResponse
        /\ Simulate(id, custom_params)
        /\ UNCHANGED <<earlier, deployment, inflight>>

SpecDefaults == Init /\ [][NextDefaults]_vars

(***************************************************************************)
(* Properties                                                              *)
(***************************************************************************)
\* The last request was a simulate request answered 200.
SimulateOk == response.route = "simulate" /\ response.status = 200

\* The last answer is a forecast _generate_forecast returned.
ForecastOk == response.route = "forecast" /\ response.status = 200

\* C1: parameters_used of a successful apply_scenario has exactly the keys
\* of the scenario's default parameters; a default key the caller sent takes
\* the caller's value, a key the defaults lack is dropped, and every other
\* default keeps its value.
C1_ParametersUsedKeepDefaultKeys ==
    SimulateOk =>
        LET defaults == SCENARIOS[response.request.scenario_id].parameters
            custom == response.request.custom_params
            used == response.body.parameters_used
        IN /\ DOMAIN used = DOMAIN defaults
           /\ \A k \in DOMAIN used :
                 used[k] = IF k \in DOMAIN custom THEN custom[k] ELSE defaults[k]

\* A request overriding duration_months and sending the unknown key "mars"
\* was answered: the override is in, "mars" is not, the rest are defaults.
C1_OverrideAndUnknownKeyMerged ==
    /\ SimulateOk
    /\ response.request.scenario_id = 6
    /\ "mars" \in DOMAIN response.request.custom_params
    /\ "mars" \notin DOMAIN response.body.parameters_used
    /\ response.body.parameters_used.duration_months = [num |-> 6]
    /\ response.body.parameters_used.supply_reduction = [num |-> 150]

\* C2: a simulate request for an id the catalog lacks is answered 404 from
\* the ValueError, the step that answers it leaves numpy's generator as it
\* was (no effect, simulation, metrics or forecast step ran) and leaves the
\* engine's baseline and forecast configuration unchanged.
C2_UnknownIdFailsBeforeAnyStep ==
    [][(/\ response'.route = "simulate"
        /\ get_scenario(response'.request.scenario_id) = None)
       => (/\ response'.status = 404
           /\ response'.error = "ValueError"
           /\ rng' = rng
           /\ dates' = dates /\ prices' = prices
           /\ prophet_config' = prophet_config)]_vars

\* An unknown id was answered 404 after an earlier call had run.
C2_UnknownIdAnswered404 ==
    /\ response.route = "simulate"
    /\ response.status = 404
    /\ response.request.scenario_id \notin DOMAIN SCENARIOS
    /\ rng # Seeded(InitialSeed(entropy))

\* C3: a successful apply_scenario call returns the simulated_prices and the
\* forecast an earlier successful call with the same (scenario_id,
\* custom_params) returned, whatever calls were served in between.
C3_RepeatedCallSameResult ==
    (/\ earlier # NoEarlier
     /\ earlier.since > 0
     /\ SimulateOk
     /\ response.request = earlier.request)
    => (/\ response.body.simulated_prices = earlier.simulated_prices
        /\ response.body.forecast = earlier.forecast)

\* The remembered request was served again, a call with another request in
\* between.
C3_RepeatedAfterOtherCalls ==
    /\ earlier # NoEarlier
    /\ earlier.since >= 2
    /\ earlier.other
    /\ SimulateOk
    /\ response.request = earlier.request

C5_CompareRunsOncePerId ==
    (response.route = "compare" /\ response.request.is_json) =>
        LET n == Len(response.request.scenario_ids)
        IN IF n = 0 \/ n > 5
           THEN response.status = 400 /\ applyCalls = 0
           ELSE response.status = 200 /\ applyCalls = n

\* C6: the sensitivity route, given a scenario id, a parameter name and a
\* non-empty list of values, answers 200 after exactly one apply_scenario
\* run per value.
C6_SensitivityRunsOncePerValue ==
    (/\ response.route = "sensitivity"
     /\ response.request.is_json
     /\ response.request.scenario_id \in DOMAIN SCENARIOS
     /\ response.request.parameter # ""
     /\ response.request.values # <<>>)
    => (response.status = 200 /\ applyCalls = Len(response.request.values))

\* Every element of s is the first one.
IsConstant(s) == \A i \in DOMAIN s : s[i] = s[1]

MonthIndex(d) == (d \div 10000) * 12 + ((d \div 100) % 100)

\* C8: a forecast has ForecastMonths entries in point, lower_95 and upper_95
\* of every region and in dates; dates[k] lies k calendar months after the
\* last historical date, on its day of the month or on the last day of a
\* shorter month, and the dates increase strictly.
C8_ForecastHorizonAndDates ==
    ForecastOk =>
        LET forecast == response.body.forecast
            last == dates[Len(dates)]
        IN /\ Len(forecast.dates) = ForecastMonths
           /\ \A r \in RegionSet \cap DOMAIN forecast :
                 /\ Len(forecast[r].point) = ForecastMonths
                 /\ Len(forecast[r].lower_95) = ForecastMonths
                 /\ Len(forecast[r].upper_95) = ForecastMonths
           /\ \A k \in 1..ForecastMonths :
                 LET d == forecast.dates[k]
                 IN /\ MonthIndex(d) = MonthIndex(last) + k
                    /\ d % 100 = Min(last % 100,
                                     DaysInMonth(d \div 10000, (d \div 100) % 100))
           /\ \A k \in 1..(ForecastMonths - 1) : forecast.dates[k] < forecast.dates[k + 1]

\* A forecast from a series ending on 31 January: the first forecast date is
\* the last day of February.
C8_MonthEndClamped ==
    /\ ForecastOk
    /\ dates[Len(dates)] = 20230131
    /\ response.body.forecast.dates[1] = 20230228
    /\ response.body.forecast.dates[2] = 20230331

\* C9: an apply_scenario call made while Prophet is not installed, or while
\* it raises at some region, returns the fallback forecast; no simulate
\* request is answered with Prophet's exception.
C9_PrimaryFailureFallsBack ==
    [][(/\ response'.route = "simulate"
        /\ prophetFailAt' = prophetFailAt
        /\ get_scenario(response'.request.scenario_id) # None)
       => (/\ (response'.status # 200 => response'.error # "ProphetError")
           /\ (/\ response'.status = 200
               /\ \/ ~PROPHET_AVAILABLE
                  \/ prophetFailAt \in
                       1..Cardinality(RegionSet \cap DOMAIN response'.body.simulated_prices))
              => response'.body.forecast.model = "simple_fallback")]_vars

\* Prophet is installed and the last simulate request was answered with the
\* fallback forecast: Prophet raised during the call.
C9_FallbackServedWhilePrimaryInstalled ==
    /\ SimulateOk
    /\ PROPHET_AVAILABLE
    /\ response.body.forecast.model = "simple_fallback"

\* C10: scenario 6 with its defaults supply_reduction 0.15, compliance_cost
\* 0.10 and duration_months 36 has the EU effect 0.35 and reports
\* price_effects.eu_ech = 35.0.
C10_RegulatoryDefaultEuEffect ==
    (/\ SimulateOk
     /\ response.request.scenario_id = 6
     /\ response.body.parameters_used.supply_reduction = [num |-> 150]
     /\ response.body.parameters_used.compliance_cost = [num |-> 100]
     /\ response.body.parameters_used.duration_months = [num |-> 36])
    => (/\ _logic_eu_regulatory(response.body.parameters_used).effects.eu_ech = 350000
        /\ response.body.price_effects.eu_ech = 3500)

\* Scenario 6 was run without overrides and reported 35.0 for eu_ech.
C10_RegulatoryDefaultsServed ==
    /\ SimulateOk
    /\ response.request.scenario_id = 6
    /\ DOMAIN response.request.custom_params = {}
    /\ response.body.parameters_used.duration_months = [num |-> 36]
    /\ response.body.price_effects.eu_ech = 3500

\* The envelope served for duration_months = 6 and a non-zero effect
PhaseSixServed ==
    /\ response.route = "phase"
    /\ response.request.duration = 6
    /\ response.request.effect # 0

\* current_effect of period i of the envelope served
EnvelopeAt(i) == response.body.envelope[i - response.body.start + 1]

\* the periods the loop of the envelope served covers
EnvelopePeriods == response.body.start .. (Len(dates) - 1)

\* C11 (as the spec words it): with duration_months = 6 the phase effect is
\* below the full effect before period start+2, equals it from start+2
\* through start+6, and is strictly below it in magnitude from start+7 on.
C11_FullEffectFirstAtStartPlusTwo ==
    PhaseSixServed =>
        \A i \in EnvelopePeriods :
            /\ i < response.body.start + 2 => Abs(EnvelopeAt(i)) < Abs(response.request.effect)
            /\ (i >= response.body.start + 2 /\ i <= response.body.start + 6)
                  => EnvelopeAt(i) = response.request.effect
            /\ i >= response.body.start + 7 => Abs(EnvelopeAt(i)) < Abs(response.request.effect)

\* C11 (amended): with duration_months = 6 the phase effect is half the full
\* effect at period start, equals the full effect from start+1 through
\* start+6, and is strictly below it in magnitude from start+7 on.
C11_FullEffectFromStartPlusOne ==
    PhaseSixServed =>
        \A i \in EnvelopePeriods :
            /\ i = response.body.start => 2 * EnvelopeAt(i) = response.request.effect
            /\ (i >= response.body.start + 1 /\ i <= response.body.start + 6)
                  => EnvelopeAt(i) = response.request.effect
            /\ i >= response.body.start + 7 => Abs(EnvelopeAt(i)) < Abs(response.request.effect)

\* An envelope for duration_months = 6 that runs past period start+7
C11_EnvelopePastDecayStart ==
    /\ PhaseSixServed
    /\ response.body.start + 7 \in EnvelopePeriods
    /\ EnvelopeAt(response.body.start + 1) = response.request.effect

\* The regions of the forecast served
ForecastRegions == DOMAIN response.body.forecast \ {"dates", "model", "confidence_interval"}

\* C12 (as the spec words it): when a canonical region is missing from the
\* baseline prices, a simulate request of a catalog scenario succeeds, the
\* region is absent from price_effects, simulated_prices, metrics and
\* forecast, and the other canonical regions are present in all four.
C12_MissingRegionAbsentFromAllFour ==
    /\ (response.route = "simulate" /\ response.request.scenario_id \in 1..16)
          => response.status = 200
    /\ SimulateOk =>
          /\ DOMAIN response.body.price_effects = RegionSet \cap DOMAIN prices
          /\ DOMAIN response.body.simulated_prices = RegionSet \cap DOMAIN prices
          /\ DOMAIN response.body.metrics = RegionSet \cap DOMAIN prices
          /\ ForecastRegions = RegionSet \cap DOMAIN prices

\* C12 (amended): when a canonical region is missing from the baseline
\* prices, a simulate request of a catalog scenario succeeds, the region is
\* absent from simulated_prices, metrics and forecast but still listed in
\* price_effects, and the other canonical regions are present in all four.
C12_MissingRegionOmittedAfterEffects ==
    /\ (response.route = "simulate" /\ response.request.scenario_id \in 1..16)
          => response.status = 200
    /\ SimulateOk =>
          /\ DOMAIN response.body.price_effects = RegionSet
          /\ DOMAIN response.body.simulated_prices = RegionSet \cap DOMAIN prices
          /\ DOMAIN response.body.metrics = RegionSet \cap DOMAIN prices
          /\ ForecastRegions = RegionSet \cap DOMAIN prices

\* A simulation served from a baseline that lacks two of the regions
C12_ServedWithoutTwoRegions ==
    /\ SimulateOk
    /\ RegionSet \cap DOMAIN prices = {"us_ech", "asia_ech"}
    /\ DOMAIN response.body.metrics = {"us_ech", "asia_ech"}

\* C13: update_prophet_config sets every supplied key the configuration
\* already has to the supplied value, ignores every other supplied key with
\* a warning and no exception, adds no key, and leaves the keys not
\* supplied as they were.
C13_UpdateSetsExistingKeysOnly ==
    [][response'.route = "update_prophet_config" =>
          /\ response'.status = 200
          /\ DOMAIN prophet_config' = DOMAIN prophet_config
          /\ \A k \in DOMAIN prophet_config :
                prophet_config'[k] = IF k \in DOMAIN response'.request
                                     THEN response'.request[k] ELSE prophet_config[k]
          /\ response'.warnings = DOMAIN response'.request \ DOMAIN prophet_config]_vars

\* An update that set a known key and ignored an unknown one
C13_KnownKeySetUnknownIgnored ==
    /\ response.route = "update_prophet_config"
    /\ response.request = [changepoint_prior_scale |-> 100, n_changepoints |-> 25]
    /\ response.warnings = {"n_changepoints"}
    /\ prophet_config.changepoint_prior_scale = 100
    /\ prophet_config.interval_width = 800

\* C14: whichever strategy ran, the forecast has point, lower_95 and
\* upper_95 lists of equal length for every simulated region, dates, a
\* confidence_interval of '95%', and a model tag naming the strategy whose
\* values it holds: 'prophet' or 'simple_fallback'.
C14_ForecastShapeAndTag ==
    ForecastOk =>
        LET f == response.body.forecast
        IN /\ DOMAIN f = DOMAIN prices \cup {"dates", "model", "confidence_interval"}
           /\ \A r \in DOMAIN prices :
                 /\ {"point", "lower_95", "upper_95"} \subseteq DOMAIN f[r]
                 /\ Len(f[r].point) = Len(f[r].lower_95)
                 /\ Len(f[r].point) = Len(f[r].upper_95)
           /\ f.confidence_interval = "95%"
           /\ f.model \in {"prophet", "simple_fallback"}
           /\ f.model = "simple_fallback" =>
                 \E fallback \in {_generate_simple_forecast(prices, response.request,
                                                             ForecastMonths, dates,
                                                             Seeded(InitialSeed(entropy)))} :
                    fallback.ok /\ f = fallback.forecast
           /\ f.model = "prophet" =>
                 /\ PROPHET_AVAILABLE
                 /\ prophetFailAt = 0
                 /\ \E primary \in {_generate_prophet_forecast(prices, response.request,
                                                                ForecastMonths, dates,
                                                                prophet_config,
                                                                Seeded(InitialSeed(entropy)), 0)} :
                        primary.ok /\ f = primary.forecast

\* A fallback forecast served after Prophet raised at the third region
C14_FallbackTaggedAfterFailure ==
    /\ ForecastOk
    /\ PROPHET_AVAILABLE
    /\ prophetFailAt = 3
    /\ response.body.forecast.model = "simple_fallback"
    /\ Len(response.body.forecast.us_ech.point) = ForecastMonths

\* C15: for a scenario whose logic tag is missing or is none of the 16
\* known tags, the effect calculation returns zero for each of the four
\* canonical regions and does not raise.
C15_UnknownTagGivesZeroVector ==
    (response.route = "price_effects" /\ response.request.tag # "keep") =>
        /\ response.status = 200
        /\ response.body = [r \in RegionSet |-> 0]

\* The effects of a catalog scenario, non-zero with its own tag, computed
\* as zero once its tag is missing
C15_MissingTagServedZero ==
    /\ response.route = "price_effects"
    /\ response.request = [id |-> 6, tag |-> "", withParams |-> TRUE]
    /\ response.status = 200
    /\ _calculate_price_effects(SCENARIOS[6], SCENARIOS[6].parameters).effects.eu_ech # 0

\* C16: a simulate request that fails for another reason than an unknown
\* scenario is answered 500 with the simulation error that carries the
\* message of the exception raised, and with no result.
C16_OtherFailuresCarryOriginalMessage ==
    (response.route = "simulate" /\ response.status \notin {200, 404}) =>
        /\ response.status = 500
        /\ response.error # "Internal Server Error"
        /\ "body" \notin DOMAIN response

\* C17: a failure of Prophet during one apply_scenario call leaves the
\* engine's choice of strategy as it was, and a later call during which
\* Prophet does not fail returns a 'prophet' forecast.
C17_FallbackForThatCallOnly ==
    [][(response'.route = "simulate" /\ prophetFailAt' = prophetFailAt) =>
          /\ PROPHET_AVAILABLE' = PROPHET_AVAILABLE
          /\ (response'.status = 200 /\ PROPHET_AVAILABLE /\ prophetFailAt = 0)
                => response'.body.forecast.model = "prophet"]_vars

\* A 'prophet' forecast served after an earlier call had fallen back
C17_PrimaryServedAfterFallback ==
    /\ earlier # NoEarlier
    /\ earlier.forecast.model = "simple_fallback"
    /\ earlier.since >= 1
    /\ PROPHET_AVAILABLE
    /\ SimulateOk
    /\ response.body.forecast.model = "prophet"

\* C18: whatever operations are served (apply_scenario,
\* get_forecast_components, update_prophet_config, regeneration), the
\* forecast configuration of the engine that serves requests changes in
\* update_prophet_config steps only.
C18_ConfigChangedByUpdateOnly ==
    [][prophet_config' # prophet_config => response'.route = "update_prophet_config"]_vars

\* The datasets a response may be computed from: the one of the last
\* regenerate request that returned success (the initial one before that)
\* and those of the regenerate requests in progress
DatasetsInForce ==
    {deployment.current}
    \cup {deployment.writing[w] : w \in {v \in Workers : deployment.stage[v] # "idle"}}

\* C19: a simulate or baseline response, by whichever worker, is computed
\* from one whole dataset, the old one or the new one of a regenerate
\* request in progress, and from the new one once regenerate has returned
\* success.
C19_RegenerationAtomicForCallers ==
    [][(response' # response /\ response'.route \in {"simulate", "baseline"}) =>
          /\ response'.status = 200
          /\ \E b \in DatasetsInForce :
                IF response'.route = "baseline"
                THEN response'.body = DataOf(b)
                ELSE /\ response'.body.dates = DataOf(b).dates
                     /\ response'.body.baseline_prices = DataOf(b).prices]_vars

\* What the call of thread t returns when it runs alone
Alone(t) ==
    apply_scenario(inflight[t].request.scenario_id, inflight[t].request.custom_params,
                   Engine).result

\* C20: each of two apply_scenario calls run in parallel on engine
\* instances over the same baseline returns the simulated_prices and the
\* forecast it returns when run alone, however their seeding and their
\* noise draws interleave.
C20_ParallelCallsAsAlone ==
    \A t \in Threads :
        inflight[t].pc = "done" =>
            /\ inflight[t].simulated_prices = Alone(t).simulated_prices
            /\ inflight[t].forecast = Alone(t).forecast

\* C21: whatever simulate requests are served, with whatever overrides, the
\* catalog's default parameters of every scenario stay what the module
\* defines, and no request changes the engine's baseline dates or prices.
C21_CallsLeaveBaselineAndCatalog ==
    /\ [](catalog = CatalogParameters)
    /\ [][dates' = dates /\ prices' = prices]_vars

\* A request that overrode a default with another value was served, and its
\* simulated prices differ from the baseline.
C21_OverrideServed ==
    /\ SimulateOk
    /\ \E k \in DOMAIN response.request.custom_params
                 \cap DOMAIN catalog[response.request.scenario_id] :
          /\ response.request.custom_params[k] # catalog[response.request.scenario_id][k]
          /\ response.body.parameters_used[k] = response.request.custom_params[k]
    /\ \E r \in DOMAIN response.body.simulated_prices :
          response.body.simulated_prices[r] # prices[r]

\* C22: in every served simulation each simulated series is as long as the
\* region's baseline series, and its values of the periods before
\* start = floor(0.2 * total_periods) are the baseline values themselves.
C22_BaselineKeptBeforeStart ==
    SimulateOk =>
        \A r \in DOMAIN response.body.simulated_prices :
            /\ Len(response.body.simulated_prices[r]) = Len(prices[r])
            /\ \A i \in 1..((Len(dates) * 2) \div 10) :
                  response.body.simulated_prices[r][i] = prices[r][i]

\* A simulation of a baseline with start >= 1 was served in which a series
\* leaves the baseline at the first period of the loop.
C22_SeriesLeavesBaselineAtStart ==
    /\ SimulateOk
    /\ (Len(dates) * 2) \div 10 >= 1
    /\ \E r \in DOMAIN response.body.simulated_prices :
          response.body.simulated_prices[r][(Len(dates) * 2) \div 10 + 1]
              # prices[r][(Len(dates) * 2) \div 10 + 1]

\* end of the envelope served: min(start + duration_months, total_periods)
EnvelopeEnd == Min(response.body.start + response.request.duration, Len(dates))

\* C23: at every period i >= end the phase effect is
\* effect * (1 - min((i - end) / 12, 1) * 0.4), to the millionth: the full
\* effect at i = end, non-increasing in magnitude, exactly 60% of the effect
\* from i = end + 12 on, never below 60% of it and never of the other sign.
C23_DecayToSixtyPercent ==
    response.route = "phase" =>
        \A i \in EnvelopePeriods :
            i >= EnvelopeEnd =>
                /\ 2 * Abs(120 * EnvelopeAt(i)
                             - response.request.effect * (120 - 4 * Min(i - EnvelopeEnd, 12)))
                       <= 120
                /\ i = EnvelopeEnd => EnvelopeAt(i) = response.request.effect
                /\ i + 1 \in EnvelopePeriods => Abs(EnvelopeAt(i + 1)) <= Abs(EnvelopeAt(i))
                /\ i >= EnvelopeEnd + 12 => 10 * EnvelopeAt(i) = 6 * response.request.effect
                /\ 10 * Abs(EnvelopeAt(i)) >= 6 * Abs(response.request.effect)
                /\ response.request.effect > 0 => EnvelopeAt(i) > 0
                /\ response.request.effect < 0 => EnvelopeAt(i) < 0
                /\ response.request.effect = 0 => EnvelopeAt(i) = 0

\* An envelope of a non-zero effect that runs past period end + 12, falls
\* between end and end + 12 and rests at 60% afterwards.
C23_DecayRunsPastTwelve ==
    /\ response.route = "phase"
    /\ response.request.effect # 0
    /\ EnvelopeEnd + 13 \in EnvelopePeriods
    /\ Abs(EnvelopeAt(EnvelopeEnd + 6)) < Abs(EnvelopeAt(EnvelopeEnd))
    /\ Abs(EnvelopeAt(EnvelopeEnd + 12)) < Abs(EnvelopeAt(EnvelopeEnd + 6))
    /\ EnvelopeAt(EnvelopeEnd + 13) = EnvelopeAt(EnvelopeEnd + 12)

\* The duration, in months, from which a clamping handler's cap binds: 12
\* times the cap in years, and 6 * 1.5 for plant_shutdown.
ClampMonths ==
    [eu_regulatory |-> 24, asian_advantage |-> 18, europe_elevation |-> 18,
     apac_pressure |-> 12, asian_undercut |-> 18, eu_constraints |-> 24,
     plant_shutdown |-> 9]

\* The region whose effect carries the clamped duration factor undiluted.
DirectRegion(logic, params) ==
    IF logic \in {"eu_regulatory", "europe_elevation", "eu_constraints"} THEN "eu_ech"
    ELSE IF logic \in {"asian_advantage", "apac_pressure", "asian_undercut"} THEN "asia_ech"
    ELSE IF StrParam(params, "region_affected", "eu") = "eu" THEN "eu_ech"
    ELSE IF StrParam(params, "region_affected", "eu") = "us" THEN "us_ech"
    ELSE "china_ech"

\* The effect vector of the request served, with duration_months = d instead
EffectsAtDuration(d) ==
    _calculate_price_effects(
        SCENARIOS[response.request.scenario_id],
        MergeParams(SCENARIOS[response.request.scenario_id].parameters,
                    [response.request.custom_params EXCEPT !.duration_months = [num |-> d]])).effects

\* C24: for a handler that clamps duration, the effect vector computed at a
\* duration at or above the cap equals the one computed at any other such
\* duration, and below the cap the direct region's effect is the effect at
\* the cap times duration / cap, to the millionth.
C24_ClampedDurationSameEffects ==
    (response.route = "duration"
        /\ SCENARIOS[response.request.scenario_id].logic \in DOMAIN ClampMonths) =>
      \E logic \in {SCENARIOS[response.request.scenario_id].logic},
         d \in {response.request.custom_params.duration_months.num} :
        /\ response.status = 200
        /\ d >= ClampMonths[logic] =>
              \A other \in DurationChoices :
                  other >= ClampMonths[logic] => EffectsAtDuration(other) = response.body
        /\ d < ClampMonths[logic] =>
              \E region \in {DirectRegion(logic, response.request.custom_params)} :
                  Abs(response.body[region] * ClampMonths[logic]
                      - EffectsAtDuration(ClampMonths[logic])[region] * d)
                     <= ClampMonths[logic]

\* The effects of plant_shutdown in the US were computed at 30 months, above
\* the cap, and are the non-zero effects of 9 months.
C24_ShutdownAboveCapServed ==
    /\ response.route = "duration"
    /\ response.request.scenario_id = 8
    /\ response.request.custom_params.duration_months.num = 30
    /\ StrParam(response.request.custom_params, "region_affected", "eu") = "us"
    /\ response.body = EffectsAtDuration(9)
    /\ response.body.us_ech > 0

\* C25: the regressor is built exactly when
\* floor(0.2 * total_periods) + duration_months > total_periods.  When built,
\* its historical part is 0 before start and the envelope of the simulation
\* for an effect of 1 from start on, a future period before
\* start + duration_months holds 1, a later one holds
\* max(0, 1 - min((i - (start + duration_months)) / 12, 1) * 0.6), and every
\* value lies in [0, 1] (values in thousandths).
C25_RegressorContinuesEnvelope ==
    response.route = "regressor" =>
      \E n \in {Len(dates)}, d \in {response.request.duration} :
       \E start \in {(n * 2) \div 10} :
        /\ response.body.built <=> start + d > n
        /\ response.body.built =>
              /\ Len(response.body.df) = n
              /\ Len(response.body.future) = n + ForecastMonths
              /\ \A i \in 0..(n - 1) :
                    /\ response.body.future[i + 1] = response.body.df[i + 1]
                    /\ response.body.df[i + 1] =
                          IF i < start THEN 0
                          ELSE PhaseEnvelope(1000, d, n)[i - start + 1]
              /\ \A i \in n..(n + ForecastMonths - 1) :
                    response.body.future[i + 1] =
                        IF i < start + d THEN 1000
                        ELSE Max(0, 1000 - RoundDiv(600 * Min(i - (start + d), 12), 12))
              /\ \A p \in DOMAIN response.body.future :
                    response.body.future[p] \in 0..1000

\* A regressor was built whose historical part ramps up and whose future
\* part holds 1 and then decays.
C25_RegressorDecaysInForecast ==
    /\ response.route = "regressor"
    /\ response.body.built
    /\ \E p \in DOMAIN response.body.df :
          response.body.df[p] > 0 /\ response.body.df[p] < 1000
    /\ response.body.future[Len(dates) + 1] = 1000
    /\ response.body.future[Len(dates) + ForecastMonths] \in 1..999

\* The value the loop served carried into step k (1-based): last_price for
\* the first step, the current of step k - 1 afterwards
CarriedInto(k) ==
    IF k = 1 THEN response.body.last_price ELSE response.body.steps[k - 1].current

\* trend * 0.85^(k-1) + (historical_mean - c) * 0.08 + seasonal of step k
\* (1-based) of the loop served, for a carried value c
StepDrift(k, c) ==
    RoundDiv(response.body.ctx.trend6 * Pow85(k - 1), 6000)
    + RoundDiv((response.body.ctx.mean_price - c) * 8, 100)
    + (IF response.body.ctx.seasonality # <<>>
       THEN response.body.ctx.seasonality[((response.body.ctx.last_month_idx + k - 1) % 12) + 1]
       ELSE 0)

\* C26 (as the spec words it): in the fallback forecast the value carried
\* into the next step is the point reported for the step, the noise included.
C26_PointIsCarriedForward ==
    response.route = "fallback_loop" =>
        \A k \in DOMAIN response.body.steps :
            response.body.steps[k].current = response.body.steps[k].point

\* C26 (amended): the value carried into the next step is
\* current + trend * 0.85^k + (historical_mean - current) * 0.08 + seasonal,
\* computed from the carried value of the step before; the point reported is
\* that value plus the step's noise, which is not carried.
C26_CarriedValueExcludesNoise ==
    response.route = "fallback_loop" =>
        \A k \in DOMAIN response.body.steps :
            /\ response.body.steps[k].current = CarriedInto(k) + StepDrift(k, CarriedInto(k))
            /\ response.body.steps[k].point
                  = response.body.steps[k].current
                    + RoundDiv(response.body.ctx.std_price * 3 * NormalDraw(42, k - 1), 100000)

\* A loop was served in which a step's point differs from the value carried
\* on, and the next step's carried value differs from what the point would
\* have given.
C26_NoisyStepServed ==
    /\ response.route = "fallback_loop"
    /\ \E k \in 1..(ForecastMonths - 1) :
          /\ response.body.steps[k].point # response.body.steps[k].current
          /\ response.body.steps[k + 1].current
                # response.body.steps[k].point + StepDrift(k + 1, response.body.steps[k].point)

\* The overrides of the request served leave the resolved parameters as
\* the catalog has them: each key is unknown to the scenario or carries the
\* default value.
OverridesChangeNothing ==
    \A k \in DOMAIN response.request.custom_params :
        k \in DOMAIN SCENARIOS[response.request.scenario_id].parameters
            => response.request.custom_params[k]
                 = SCENARIOS[response.request.scenario_id].parameters[k]

\* C27: a simulate request of a catalog scenario whose overrides are unknown
\* keys or defaults repeated is answered with the parameters_used,
\* price_effects, simulated_prices, metrics and forecast that the same
\* request without overrides gets.
C27_NeutralOverridesSameResult ==
    (response.route = "simulate" /\ response.request.scenario_id \in DOMAIN SCENARIOS
        /\ OverridesChangeNothing) =>
      \E plain \in {apply_scenario(response.request.scenario_id, NoParams, Engine)} :
        /\ response.status = 200
        /\ plain.ok
        /\ response.body.parameters_used = plain.result.parameters_used
        /\ response.body.price_effects = plain.result.price_effects
        /\ response.body.simulated_prices = plain.result.simulated_prices
        /\ response.body.metrics = plain.result.metrics
        /\ response.body.forecast = plain.result.forecast

\* A request that repeated a default and named an unknown key was served
\* with simulated prices that left the baseline.
C27_DefaultsAndUnknownKeyServed ==
    /\ SimulateOk
    /\ OverridesChangeNothing
    /\ \E k \in DOMAIN response.request.custom_params :
          k \in DOMAIN SCENARIOS[response.request.scenario_id].parameters
    /\ \E k \in DOMAIN response.request.custom_params :
          k \notin DOMAIN SCENARIOS[response.request.scenario_id].parameters
    /\ response.body.simulated_prices # response.body.baseline_prices

\* C28: the forecast served holds one strategy's values throughout.  When
\* Prophet is installed and raises at some region, after others were
\* forecast or not, every region holds the fallback's point, lower_95 and
\* upper_95 and nothing else, and the tag is 'simple_fallback'; a forecast
\* tagged 'prophet' has the trend of every region.
C28_ForecastOfOneStrategy ==
    ForecastOk =>
        /\ (PROPHET_AVAILABLE /\ prophetFailAt \in 1..Len(PresentRegions(prices))) =>
              /\ response.body.forecast.model = "simple_fallback"
              /\ \A r \in ForecastRegions :
                    response.body.forecast[r] = SimpleRegion(prices[r], ForecastMonths)
        /\ \A r \in ForecastRegions :
              /\ "trend" \in DOMAIN response.body.forecast[r]
                    <=> response.body.forecast.model = "prophet"
              /\ response.body.forecast.model = "simple_fallback"
                    => DOMAIN response.body.forecast[r] = {"point", "lower_95", "upper_95"}

\* Prophet raised at the third region of a series it could have fitted, and
\* the forecast served has four regions whose values differ from those
\* Prophet gives when it does not raise.
C28_FailureAfterTwoRegionsServed ==
    /\ ForecastOk
    /\ PROPHET_AVAILABLE
    /\ prophetFailAt = 3
    /\ Len(dates) >= 2
    /\ Cardinality(ForecastRegions) = 4
    /\ \E whole \in {_generate_prophet_forecast(prices, response.request, ForecastMonths, dates,
                                                   prophet_config, Seeded(InitialSeed(entropy)), 0)} :
          /\ whole.ok
          /\ whole.forecast.us_ech.point # response.body.forecast.us_ech.point

\* C29: for every catalog scenario (one per logic tag) and every
\* duration_months >= 0, zero included, next to other numeric overrides, the
\* effect calculation returns a number for each of the four canonical
\* regions and does not raise.
C29_EffectsTotalOverDurations ==
    response.route = "duration" =>
        /\ response.status = 200
        /\ DOMAIN response.body = RegionSet
        /\ \A r \in RegionSet : response.body[r] \in Int

\* C30: for every duration_months >= 0, those below 3 with ramp = 0
\* included, and every number of periods, the envelope is computed without
\* a division by zero, and at every period the phase effect has the sign of
\* the terminal effect and at most its magnitude.
C30_EnvelopeBoundedNoZeroDivision ==
    response.route = "phase" =>
        /\ response.status = 200
        /\ \A i \in EnvelopePeriods :
              /\ Abs(EnvelopeAt(i)) <= Abs(response.request.effect)
              /\ response.request.effect > 0 => EnvelopeAt(i) > 0
              /\ response.request.effect < 0 => EnvelopeAt(i) < 0

\* An envelope over 24 periods was computed for duration_months = 2, where
\* ramp is 0, and a negative effect: the full effect is in force at period
\* start and decays from start + 2 on.
C30_ZeroRampEnvelopeServed ==
    /\ response.route = "phase"
    /\ response.status = 200
    /\ response.request.duration = 2
    /\ response.request.effect < 0
    /\ Len(dates) = MaxPeriods
    /\ EnvelopeAt(response.body.start) = response.request.effect
    /\ EnvelopeAt(response.body.start + 3) > response.request.effect

====
